---- MODULE Spec2Model ----
(***************************************************************************)
(* Technical-indicator engine of src/src/agents/technicals.py.             *)
(*                                                                         *)
(* Number model.  A price is held in integer cents: get_price_history      *)
(* (src/src/tools/market_data.py:48-52) rounds every open/high/low/close   *)
(* to 2 decimals, so the dollar value p is the integer 100*p here and      *)
(* round(x, 2) on a price is rounding to a whole number of cents.  A       *)
(* float that the code computes is held as an exact rational <<n, d>>      *)
(* with d > 0 in lowest terms.  A division whose divisor is zero yields    *)
(* the poison value <<0, 0>>, which every later operation propagates; a    *)
(* function that computed a poison value has raised ZeroDivisionError.     *)
(* The two places where IEEE-754 rounding decides an outcome are kept:     *)
(* a decimal tie in round() (the binary value of the float lies just       *)
(* above or just below the tie, so either direction is an outcome), and    *)
(* the residue of sum(recent)/window for an all-equal window (see          *)
(* MeanResidueUlps).                                                       *)
(***************************************************************************)
EXTENDS Integers, Sequences, FiniteSets, TLC

\* ------------------------------------------------------------------------
\* Bounds of the model
\* ------------------------------------------------------------------------
MaxLen == 51
MaxShort == 3
MaxSpan == 3

\* ------------------------------------------------------------------------
\* Exact rational arithmetic standing for float arithmetic
\* ------------------------------------------------------------------------
Abs(x) == IF x < 0 THEN -x ELSE x
Sign(x) == IF x < 0 THEN -1 ELSE IF x > 0 THEN 1 ELSE 0

RECURSIVE GCD(_, _)
GCD(a, b) == IF b = 0 THEN a ELSE GCD(b, a % b)

NaNQ == <<0, 0>>
IsNaN(q) == q[2] = 0
Norm(n, d) ==
    IF d = 0 THEN NaNQ
    ELSE LET g == GCD(Abs(n), Abs(d))
             s == IF d < 0 THEN -1 ELSE 1
         IN <<s * (n \div g), s * (d \div g)>>
R(i) == <<i, 1>>
RAdd(a, b) == IF IsNaN(a) \/ IsNaN(b) THEN NaNQ
              ELSE LET g == GCD(a[2], b[2])
                   IN Norm(a[1] * (b[2] \div g) + b[1] * (a[2] \div g), a[2] * (b[2] \div g))
RNeg(a) == IF IsNaN(a) THEN NaNQ ELSE <<-a[1], a[2]>>
RSub(a, b) == RAdd(a, RNeg(b))
RMul(a, b) == IF IsNaN(a) \/ IsNaN(b) THEN NaNQ
              ELSE LET g1 == GCD(Abs(a[1]), b[2])
                       g2 == GCD(Abs(b[1]), a[2])
                       h1 == IF g1 = 0 THEN 1 ELSE g1
                       h2 == IF g2 = 0 THEN 1 ELSE g2
                   IN Norm((a[1] \div h1) * (b[1] \div h2), (a[2] \div h2) * (b[2] \div h1))
\* a / b of the code: a zero divisor raises ZeroDivisionError (poison)
RDiv(a, b) == IF IsNaN(a) \/ IsNaN(b) \/ b[1] = 0 THEN NaNQ
              ELSE RMul(a, Norm(b[2], b[1]))
RLt(a, b) == a[1] * b[2] < b[1] * a[2]
RLe(a, b) == a[1] * b[2] <= b[1] * a[2]
REq(a, b) == a[1] * b[2] = b[1] * a[2]
RIsZero(a) == a[1] = 0 /\ a[2] # 0
RMax(a, b) == IF RLt(a, b) THEN b ELSE a
RAbs(a) == <<Abs(a[1]), a[2]>>

\* floor of a rational (\div rounds towards minus infinity)
RFloor(a) == a[1] \div a[2]

\* round(x, nd) of the code, the result counted in units of 10^-nd: x is
\* scaled by the caller.  A decimal tie goes the way `tie` says.
TieBreak == {"down", "up"}
\* Two floats that are equal as exact numbers (a cluster mean and the close,
\* two distances) compare equal, or lower, or higher, as their rounding
\* errors decide: -1, 0, 1 is the sign of (left - right) in the build.
CmpNoise == {-1, 0, 1}
Round(a, tie) ==
    LET f == RFloor(a)
        twice == 2 * (a[1] - f * a[2])
    IN IF twice < a[2] THEN f
       ELSE IF twice > a[2] THEN f + 1
       ELSE IF tie = "up" THEN f + 1 ELSE f

\* ------------------------------------------------------------------------
\* Python sequence helpers (0-based and negative indices, slices)
\* ------------------------------------------------------------------------
\* seq[i] is defined iff -len <= i < len; otherwise the code raises IndexError
PyHas(seq, i) == IF i >= 0 THEN i < Len(seq) ELSE -i <= Len(seq)
PyAt(seq, i) == IF i >= 0 THEN seq[i + 1] ELSE seq[Len(seq) + i + 1]
\* seq[-k:] for k > 0
LastN(seq, k) == IF Len(seq) <= k THEN seq ELSE SubSeq(seq, Len(seq) - k + 1, Len(seq))
\* seq[:k] for k >= 0
FirstN(seq, k) == IF Len(seq) <= k THEN seq ELSE SubSeq(seq, 1, k)
\* seq[k:] for k >= 0
DropN(seq, k) == IF Len(seq) <= k THEN <<>> ELSE SubSeq(seq, k + 1, Len(seq))

\* sum, max and min of seq[lo..hi], by halves (exact arithmetic: the order of
\* the additions does not matter)
RECURSIVE SumIntRange(_, _, _)
SumIntRange(seq, lo, hi) ==
    IF lo > hi THEN 0
    ELSE IF lo = hi THEN seq[lo]
    ELSE SumIntRange(seq, lo, (lo + hi) \div 2) + SumIntRange(seq, (lo + hi) \div 2 + 1, hi)
SumInt(seq) == SumIntRange(seq, 1, Len(seq))
RECURSIVE SumQRange(_, _, _)
SumQRange(seq, lo, hi) ==
    IF lo > hi THEN R(0)
    ELSE IF lo = hi THEN seq[lo]
    ELSE RAdd(SumQRange(seq, lo, (lo + hi) \div 2), SumQRange(seq, (lo + hi) \div 2 + 1, hi))
SumQ(seq) == SumQRange(seq, 1, Len(seq))
MaxInt(seq) == CHOOSE m \in {seq[i] : i \in 1..Len(seq)} : \A i \in 1..Len(seq) : seq[i] <= m
MinInt(seq) == CHOOSE m \in {seq[i] : i \in 1..Len(seq)} : \A i \in 1..Len(seq) : seq[i] >= m

Closes(prices) == [i \in 1..Len(prices) |-> prices[i].close]
Highs(prices) == [i \in 1..Len(prices) |-> prices[i].high]
Lows(prices) == [i \in 1..Len(prices) |-> prices[i].low]
Volumes(prices) == [i \in 1..Len(prices) |-> prices[i].volume]
ToQ(seq) == [i \in 1..Len(seq) |-> R(seq[i])]

\* ------------------------------------------------------------------------
\* Results of a call: None, a value, or an exception
\* ------------------------------------------------------------------------
None == [status |-> "absent", exc |-> "none", val |-> <<>>]
Present(v) == [status |-> "present", exc |-> "none", val |-> v]
Raised(e) == [status |-> "raised", exc |-> e, val |-> <<>>]
\* the value v, unless one of the floats qs it was computed from is poison
Ret(qs, v) == IF \E i \in 1..Len(qs) : IsNaN(qs[i]) THEN Raised("ZeroDivisionError")
              ELSE Present(v)

\* ------------------------------------------------------------------------
\* _ema, _compute_ema_value, _compute_sma
\* ------------------------------------------------------------------------
\* A loop over the positions lo..hi is written as the loop over the first
\* half of the positions followed by the loop over the second half: the steps
\* run in the order of the code.  The result of the first half is inspected
\* before the second half starts, so that the evaluation nests only
\* logarithmically deep.
RECURSIVE EmaLoop(_, _, _, _, _)
\* for val in data[lo..hi]: result.append((val - result[-1]) * multiplier + result[-1])
EmaLoop(data, multiplier, lo, hi, result) ==
    IF lo > hi THEN result
    ELSE IF lo = hi
    THEN LET prev == result[Len(result)]
         IN Append(result, RAdd(RMul(RSub(data[lo], prev), multiplier), prev))
    ELSE LET first == EmaLoop(data, multiplier, lo, (lo + hi) \div 2, result)
         IN IF first = <<>> THEN first
            ELSE EmaLoop(data, multiplier, (lo + hi) \div 2 + 1, hi, first)

\* a bug that seeds the average with the mean of the first `span` values
ema_sma_seed(data, span) ==
    IF data = <<>> THEN <<>>
    ELSE EmaLoop(data, RDiv(R(2), R(span + 1)), 2, Len(data),
                 <<RDiv(SumQ(FirstN(data, span)), R(Len(FirstN(data, span))))>>)

ema(data, span) ==
    IF data = <<>> THEN <<>>
    ELSE EmaLoop(data, RDiv(R(2), R(span + 1)), 2, Len(data), <<data[1]>>)

compute_ema_value(prices, span) ==
    LET closes == ToQ(Closes(prices))
    IN IF Len(closes) < span THEN None
       ELSE LET ema_series == ema(closes, span)
            IN IF ~PyHas(ema_series, -1) THEN Raised("IndexError")
               ELSE Ret(<<PyAt(ema_series, -1)>>, PyAt(ema_series, -1))

compute_sma(prices, window) ==
    LET closes == Closes(prices)
    IN IF Len(closes) < window THEN None
       ELSE LET v == RDiv(R(SumInt(LastN(closes, window))), R(window))
            IN Ret(<<v>>, v)

\* ------------------------------------------------------------------------
\* _compute_rsi (Wilder)
\* ------------------------------------------------------------------------
Deltas(closes) == [i \in 1..(Len(closes) - 1) |-> closes[i + 1] - closes[i]]
Pos(d) == IF d > 0 THEN d ELSE 0

RECURSIVE WilderLoop(_, _, _, _, _)
\* for x in xs[lo..hi]: avg = (avg * (period - 1) + x) / period
WilderLoop(avg, xs, lo, hi, period) ==
    IF lo > hi THEN avg
    ELSE IF lo = hi THEN RDiv(RAdd(RMul(avg, R(period - 1)), R(xs[lo])), R(period))
    ELSE LET first == WilderLoop(avg, xs, lo, (lo + hi) \div 2, period)
         IN IF IsNaN(first) THEN first
            ELSE WilderLoop(first, xs, (lo + hi) \div 2 + 1, hi, period)
Wilder(avg, xs, period) == WilderLoop(avg, xs, 1, Len(xs), period)

SeedAvg(xs, period) == RDiv(R(SumInt(xs)), R(period))
AvgGain(closes, period) ==
    LET deltas == Deltas(closes)
        gains == [i \in 1..Len(deltas) |-> Pos(deltas[i])]
    IN Wilder(SeedAvg(FirstN(gains, period), period), DropN(gains, period), period)
AvgLoss(closes, period) ==
    LET deltas == Deltas(closes)
        losses == [i \in 1..Len(deltas) |-> Pos(-deltas[i])]
    IN Wilder(SeedAvg(FirstN(losses, period), period), DropN(losses, period), period)

\* a bug that drops the avg_loss == 0 guard
compute_rsi_noguard(prices, period) ==
    LET closes == Closes(prices)
    IN IF Len(closes) < period + 1 THEN None
       ELSE LET rs == RDiv(AvgGain(closes, period), AvgLoss(closes, period))
                v == RSub(R(100), RDiv(R(100), RAdd(R(1), rs)))
            IN Ret(<<v>>, v)

compute_rsi(prices, period) ==
    LET closes == Closes(prices)
    IN IF Len(closes) < period + 1 THEN None
       ELSE LET avg_gain == AvgGain(closes, period)
                avg_loss == AvgLoss(closes, period)
            IN IF IsNaN(avg_gain) \/ IsNaN(avg_loss) THEN Raised("ZeroDivisionError")
               ELSE IF RIsZero(avg_loss) THEN Present(R(100))
               ELSE LET rs == RDiv(avg_gain, avg_loss)
                        v == RSub(R(100), RDiv(R(100), RAdd(R(1), rs)))
                    IN Ret(<<v>>, v)

\* ------------------------------------------------------------------------
\* _compute_macd (12, 26, 9)
\* ------------------------------------------------------------------------
\* a bug that misses a crossover starting exactly on the signal line
MacdCrossover_strict(prev_diff, curr_diff) ==
    IF RLt(prev_diff, R(0)) /\ RLt(R(0), curr_diff)
    THEN "BULLISH crossover (MACD crossing above signal)"
    ELSE IF RLt(R(0), prev_diff) /\ RLt(curr_diff, R(0))
    THEN "BEARISH crossover (MACD crossing below signal)"
    ELSE "no recent crossover"

MacdCrossover(prev_diff, curr_diff) ==
    IF RLe(prev_diff, R(0)) /\ RLt(R(0), curr_diff)
    THEN "BULLISH crossover (MACD crossing above signal)"
    ELSE IF RLe(R(0), prev_diff) /\ RLt(curr_diff, R(0))
    THEN "BEARISH crossover (MACD crossing below signal)"
    ELSE "no recent crossover"

MacdLine(closes) ==
    LET ema12 == ema(closes, 12)
        ema26 == ema(closes, 26)
    IN [i \in 1..Len(closes) |-> RSub(ema12[i], ema26[i])]

compute_macd(prices, tie) ==
    LET closes == ToQ(Closes(prices))
    IN IF Len(closes) < 35 THEN None
       ELSE LET macd_line == MacdLine(closes)
                signal_line == ema(macd_line, 9)
                histogram == RSub(PyAt(macd_line, -1), PyAt(signal_line, -1))
                crossover ==
                    IF Len(macd_line) >= 2 /\ Len(signal_line) >= 2
                    THEN MacdCrossover(RSub(PyAt(macd_line, -2), PyAt(signal_line, -2)),
                                       RSub(PyAt(macd_line, -1), PyAt(signal_line, -1)))
                    ELSE "insufficient data for crossover detection"
            IN Ret(<<histogram>>,
                   [macd_line |-> Round(RMul(PyAt(macd_line, -1), R(100)), tie),
                    signal_line |-> Round(RMul(PyAt(signal_line, -1), R(100)), tie),
                    histogram |-> Round(RMul(histogram, R(100)), tie),
                    crossover |-> crossover])

\* ------------------------------------------------------------------------
\* Square roots: x ** 0.5 is irrational in general, so a value a + b*sqrt(A)
\* is never stored; what the code does with it (round it, compare it) is
\* computed exactly on integers.
\* ------------------------------------------------------------------------
RECURSIVE ISqrtIn(_, _, _)
\* the largest r in lo..hi with r * r <= x
ISqrtIn(x, lo, hi) ==
    IF lo = hi THEN lo
    ELSE LET mid == (lo + hi + 1) \div 2
         IN IF mid * mid <= x THEN ISqrtIn(x, mid, hi) ELSE ISqrtIn(x, lo, mid - 1)
ISqrt(x) == ISqrtIn(x, 0, IF x < 46340 THEN x ELSE 46340)
IsSquare(x) == ISqrt(x) * ISqrt(x) = x

RECURSIVE SqrtDigitsLoop(_, _, _)
\* long-hand square root: p = floor(sqrt(x) * 10^j), r = x * 100^j - p * p
SqrtDigitsLoop(p, r, k) ==
    IF k = 0 THEN p
    ELSE LET r100 == r * 100
             dgt == CHOOSE d \in 0..9 :
                        /\ (20 * p + d) * d <= r100
                        /\ (d = 9 \/ (20 * p + d + 1) * (d + 1) > r100)
         IN SqrtDigitsLoop(10 * p + dgt, r100 - (20 * p + dgt) * dgt, k - 1)
\* floor(sqrt(x) * 10^k)
SqrtDigits(x, k) == SqrtDigitsLoop(ISqrt(x), x - ISqrt(x) * ISqrt(x), k)

Pow10(k) == IF k = 0 THEN 1 ELSE IF k = 1 THEN 10 ELSE IF k = 2 THEN 100
            ELSE IF k = 3 THEN 1000 ELSE 10000

\* round((a + sgn * 10^k * sqrt(A)) / n) for sgn in {-1, 1}, A >= 0, n > 0
RoundRoot(a, sgn, A, k, n, tie) ==
    IF IsSquare(A) THEN Round(Norm(a + sgn * Pow10(k) * ISqrt(A), n), tie)
    ELSE LET f == SqrtDigits(4 * A, k)
         IN IF sgn > 0 THEN (2 * a + n + f) \div (2 * n)
            ELSE (2 * a + n - f - 1) \div (2 * n)

\* a * sqrt(A) <= b  and  a * sqrt(A) < b
SurdLe(a, A, b) ==
    IF a >= 0 THEN b >= 0 /\ a * a * A <= b * b
    ELSE b >= 0 \/ a * a * A >= b * b
SurdLt(a, A, b) ==
    IF a >= 0 THEN b > 0 /\ a * a * A < b * b
    ELSE b >= 0 \/ a * a * A > b * b

\* ------------------------------------------------------------------------
\* _compute_bollinger_bands (window 20, 2 standard deviations)
\* ------------------------------------------------------------------------
\* IEEE-754 binary64 residue, in units in the last place of c, of
\* sum(recent) / window - c for window = 20 closes all equal to c cents
\* (c / 100 dollars): the running sum is rounded as it grows, so the mean of
\* 20 equal floats is not always that float.  Measured on the source
\* expression for the cent prices 80..130 that the inputs of this model use.
MeanResidueTable ==
    <<1, 2, 1, -1, 1, -1, -2, -2, 2, 2, 0, -1, 2, -1, -1, -3, 5, 0, 2, -1,
      0, 1, -1, 0, -2, 1, 0, 0, -2, 0, 0, -1, 2, -2, 1, -1, 0, 2, 0, 1,
      -1, 2, -1, 1, -2, 0, 2, -1, 1, -2, 1>>
MeanResidueUlps(c) == IF c >= 80 /\ c <= 130 THEN MeanResidueTable[c - 79] ELSE 0

\* w * w * variance of the window: w * sum(x^2) - sum(x)^2
WindowQ(w) == Len(w) * SumInt([i \in 1..Len(w) |-> w[i] * w[i]]) - SumInt(w) * SumInt(w)

\* 100 * pct_b rounded, for a window with Q > 0: pct_b = 1/2 + D / (2 * num_std * sqrt(Q))
\* where D = window * current_price - sum(recent)
PctRange == 120
PctBHundredths(D, Q, num_std, tie) ==
    50 + (CHOOSE m \in (-PctRange)..PctRange :
            /\ IF tie = "up" THEN SurdLe((2 * m - 1) * num_std, Q, 100 * D)
                             ELSE SurdLt((2 * m - 1) * num_std, Q, 100 * D)
            /\ IF tie = "up" THEN ~SurdLe((2 * m + 1) * num_std, Q, 100 * D)
                             ELSE ~SurdLt((2 * m + 1) * num_std, Q, 100 * D))

\* bounds, in units of 10^-6, of the bandwidth 2 * num_std * sqrt(Q) / S of one window
BwLo(Q, S, num_std) == IF S = 0 \/ Q = 0 THEN 0
                       ELSE (SqrtDigits(4 * num_std * num_std * Q, 4) * 100) \div S
BwHi(Q, S, num_std) == IF S = 0 \/ Q = 0 THEN 0
                       ELSE ((SqrtDigits(4 * num_std * num_std * Q, 4) + 1) * 100) \div S + 1

\* squeeze = bandwidth < avg_bw * 0.75 over every window-sized slice of closes;
\* when the two sides agree to 6 decimals the float rounding decides (tie).
\* Squeeze_longer is a bug that asks for more than 2 * window closes.
Squeeze_longer(closes, window, num_std, tie) ==
    IF Len(closes) > window * 2
    THEN LET L == Len(closes) - window + 1
             W(j) == SubSeq(closes, j, j + window - 1)
             los == [j \in 1..L |-> BwLo(WindowQ(W(j)), SumInt(W(j)), num_std)]
             his == [j \in 1..L |-> BwHi(WindowQ(W(j)), SumInt(W(j)), num_std)]
         IN IF 4 * L * his[L] < 3 * SumInt(los) THEN TRUE
            ELSE IF 4 * L * los[L] >= 3 * SumInt(his) THEN FALSE
            ELSE tie = "up"
    ELSE FALSE
Squeeze(closes, window, num_std, tie) ==
    IF Len(closes) >= window * 2
    THEN LET L == Len(closes) - window + 1
             W(j) == SubSeq(closes, j, j + window - 1)
             los == [j \in 1..L |-> BwLo(WindowQ(W(j)), SumInt(W(j)), num_std)]
             his == [j \in 1..L |-> BwHi(WindowQ(W(j)), SumInt(W(j)), num_std)]
         IN IF 4 * L * his[L] < 3 * SumInt(los) THEN TRUE
            ELSE IF 4 * L * los[L] >= 3 * SumInt(his) THEN FALSE
            ELSE tie = "up"
    ELSE FALSE

\* the mean of the window is exact up to the residue of an all-equal window,
\* which is then also its std_dev (in ulps); (upper - lower) != 0 follows
BandResidue(recent) == IF WindowQ(recent) = 0 THEN MeanResidueUlps(recent[1]) ELSE 0
BandsDiffer(recent) == WindowQ(recent) # 0 \/ BandResidue(recent) # 0

compute_bollinger_bands(prices, window, num_std, tie) ==
    LET closes == Closes(prices)
    IN IF Len(closes) < window THEN None
       ELSE LET recent == LastN(closes, window)
                S == SumInt(recent)
                Q == WindowQ(recent)
                current_price == PyAt(closes, -1)
                k == BandResidue(recent)
                bands_differ == BandsDiffer(recent)
                A == num_std * num_std * Q
                pct_b == IF Q # 0 THEN PctBHundredths(window * current_price - S, Q, num_std, tie)
                         ELSE IF bands_differ
                         THEN Round(Norm(100 * (num_std * Abs(k) - k), 2 * num_std * Abs(k)), tie)
                         ELSE 50
            IN Present([upper |-> RoundRoot(S, 1, A, 0, window, tie),
                        middle |-> Round(Norm(S, window), tie),
                        lower |-> RoundRoot(S, -1, A, 0, window, tie),
                        bandwidth |-> IF S # 0 THEN RoundRoot(0, 1, 4 * A, 4, S, tie) ELSE 0,
                        pct_b |-> pct_b,
                        squeeze |-> Squeeze(closes, window, num_std, tie)])

\* ------------------------------------------------------------------------
\* _compute_atr (Wilder, period 14)
\* ------------------------------------------------------------------------
Max3(a, b, c) == IF a >= b /\ a >= c THEN a ELSE IF b >= c THEN b ELSE c
TrueRanges(prices) ==
    [i \in 1..(Len(prices) - 1) |->
        Max3(prices[i + 1].high - prices[i + 1].low,
             Abs(prices[i + 1].high - prices[i].close),
             Abs(prices[i + 1].low - prices[i].close))]

compute_atr(prices, period, tie) ==
    IF Len(prices) < period + 1 THEN None
    ELSE LET true_ranges == TrueRanges(prices)
             atr == Wilder(SeedAvg(FirstN(true_ranges, period), period),
                           DropN(true_ranges, period), period)
             current_price == PyAt(prices, -1).close
             atr_pct == IF current_price # 0
                        THEN RMul(RDiv(atr, R(current_price)), R(100))
                        ELSE R(0)
         IN Ret(<<atr, atr_pct>>,
                [atr |-> Round(atr, tie),
                 atr_pct |-> Round(RMul(atr_pct, R(100)), tie)])

\* ------------------------------------------------------------------------
\* _compute_stochastic (%K 14, %D 3)
\* ------------------------------------------------------------------------
\* a bug that drops the flat-window guard
StochK_noguard(prices, e, k_period) ==
    LET window == SubSeq(prices, e - k_period + 1, e)
        high == MaxInt(Highs(window))
        low == MinInt(Lows(window))
    IN RMul(RDiv(R(prices[e].close - low), R(high - low)), R(100))

\* %K of the k_period bars ending at the 1-based index e
StochK(prices, e, k_period) ==
    LET window == SubSeq(prices, e - k_period + 1, e)
        high == MaxInt(Highs(window))
        low == MinInt(Lows(window))
        close == prices[e].close
    IN IF high - low = 0 THEN R(50)
       ELSE RMul(RDiv(R(close - low), R(high - low)), R(100))

\* a bug that averages every %K value instead of the last d_period ones
StochD_all(k_values, d_period) ==
    RDiv(SumQ(k_values), R(Len(k_values)))

\* %D is the SMA of %K
StochD(k_values, d_period) ==
    IF Len(k_values) >= d_period
    THEN RDiv(SumQ(LastN(k_values, d_period)), R(d_period))
    ELSE PyAt(k_values, -1)

\* a bug that requires one bar too few
compute_stochastic_offbyone(prices, k_period, d_period, tie) ==
    IF Len(prices) < k_period + d_period - 1 THEN None
    ELSE LET k_values == [j \in 1..(Len(prices) - k_period + 1) |->
                             StochK(prices, j + k_period - 1, k_period)]
             pct_k == PyAt(k_values, -1)
             pct_d == StochD(k_values, d_period)
         IN Ret(k_values \o <<pct_d>>,
                [pct_k |-> Round(RMul(pct_k, R(10)), tie),
                 pct_d |-> Round(RMul(pct_d, R(10)), tie)])

compute_stochastic(prices, k_period, d_period, tie) ==
    IF Len(prices) < k_period + d_period THEN None
    ELSE LET k_values == [j \in 1..(Len(prices) - k_period + 1) |->
                             StochK(prices, j + k_period - 1, k_period)]
             pct_k == PyAt(k_values, -1)
             pct_d == StochD(k_values, d_period)
         IN Ret(k_values \o <<pct_d>>,
                [pct_k |-> Round(RMul(pct_k, R(10)), tie),
                 pct_d |-> Round(RMul(pct_d, R(10)), tie)])

\* ------------------------------------------------------------------------
\* _compute_obv
\* ------------------------------------------------------------------------
RECURSIVE ObvLoop(_, _, _, _)
\* the loop body for the bars lo..hi
ObvLoop(prices, lo, hi, obv_series) ==
    IF lo > hi THEN obv_series
    ELSE IF lo = hi
    THEN LET obv == obv_series[Len(obv_series)]
         IN Append(obv_series,
                   IF prices[lo].close > prices[lo - 1].close THEN obv + prices[lo].volume
                   ELSE IF prices[lo].close < prices[lo - 1].close THEN obv - prices[lo].volume
                   ELSE obv)
    ELSE LET first == ObvLoop(prices, lo, (lo + hi) \div 2, obv_series)
         IN IF first = <<>> THEN first
            ELSE ObvLoop(prices, (lo + hi) \div 2 + 1, hi, first)
\* the running sum seeded with the first bar's volume
ObvSeries_seeded(prices) == ObvLoop(prices, 2, Len(prices), <<prices[1].volume>>)
ObvSeries(prices) == ObvLoop(prices, 2, Len(prices), <<0>>)

\* a bug that reads an unchanged price as a falling one
ObvDivergence_lenient(obv_slope, price_slope) ==
    IF RLt(R(0), obv_slope) /\ RLe(price_slope, R(0))
    THEN "BULLISH divergence (OBV rising while price falling - accumulation)"
    ELSE IF RLt(obv_slope, R(0)) /\ RLt(R(0), price_slope)
    THEN "BEARISH divergence (OBV falling while price rising - distribution)"
    ELSE IF RLt(R(0), obv_slope) /\ RLt(R(0), price_slope)
    THEN "Confirmed uptrend (both price and OBV rising)"
    ELSE IF RLt(obv_slope, R(0)) /\ RLe(price_slope, R(0))
    THEN "Confirmed downtrend (both price and OBV falling)"
    ELSE "No clear divergence"
ObvDivergence(obv_slope, price_slope) ==
    IF RLt(R(0), obv_slope) /\ RLt(price_slope, R(0))
    THEN "BULLISH divergence (OBV rising while price falling - accumulation)"
    ELSE IF RLt(obv_slope, R(0)) /\ RLt(R(0), price_slope)
    THEN "BEARISH divergence (OBV falling while price rising - distribution)"
    ELSE IF RLt(R(0), obv_slope) /\ RLt(R(0), price_slope)
    THEN "Confirmed uptrend (both price and OBV rising)"
    ELSE IF RLt(obv_slope, R(0)) /\ RLt(price_slope, R(0))
    THEN "Confirmed downtrend (both price and OBV falling)"
    ELSE "No clear divergence"

compute_obv(prices) ==
    IF Len(prices) < 20 THEN None
    ELSE LET obv_series == ObvSeries(prices)
             obv_20 == LastN(obv_series, 20)
             obv_slope == IF Len(obv_20) >= 20
                          THEN RDiv(R(PyAt(obv_20, -1) - PyAt(obv_20, 0)), R(20)) ELSE R(0)
             price_20 == Closes(LastN(prices, 20))
             price_slope == IF Len(price_20) >= 20
                            THEN RDiv(R(PyAt(price_20, -1) - PyAt(price_20, 0)), R(20)) ELSE R(0)
         IN Ret(<<obv_slope, price_slope>>,
                [obv |-> PyAt(obv_series, -1),
                 trend |-> IF RLt(R(0), obv_slope) THEN "rising"
                           ELSE IF RLt(obv_slope, R(0)) THEN "falling" ELSE "flat",
                 divergence |-> ObvDivergence(obv_slope, price_slope)])

\* ------------------------------------------------------------------------
\* _analyze_volume (window 20)
\* ------------------------------------------------------------------------
\* volumes of the days i in range(-window, 0) whose close is up (dir = 1) or
\* down (dir = -1) against prices[i - 1].  DayVolumes_ties is a bug that counts
\* the days with an unchanged close as down days.
DayVolumes_ties(prices, window, dir) ==
    LET idx == [j \in 1..window |-> j - window - 1]
        hit(i) == IF dir > 0 THEN PyAt(prices, i).close > PyAt(prices, i - 1).close
                  ELSE PyAt(prices, i).close <= PyAt(prices, i - 1).close
    IN SelectSeq([j \in 1..window |-> <<idx[j], PyAt(prices, idx[j]).volume>>],
                 LAMBDA p : hit(p[1]))
DayVolumes(prices, window, dir) ==
    LET idx == [j \in 1..window |-> j - window - 1]        \* -window .. -1
        hit(i) == IF dir > 0 THEN PyAt(prices, i).close > PyAt(prices, i - 1).close
                  ELSE PyAt(prices, i).close < PyAt(prices, i - 1).close
    IN SelectSeq([j \in 1..window |-> <<idx[j], PyAt(prices, idx[j]).volume>>],
                 LAMBDA p : hit(p[1]))
MeanVol(day_volume) ==
    IF day_volume # <<>>
    THEN RDiv(R(SumInt([j \in 1..Len(day_volume) |-> day_volume[j][2]])), R(Len(day_volume)))
    ELSE R(0)

VolumeCharacter(avg_up_vol, avg_down_vol) ==
    IF RLt(RMul(avg_down_vol, <<13, 10>>), avg_up_vol)
    THEN "Accumulation (heavier volume on up days)"
    ELSE IF RLt(RMul(avg_up_vol, <<13, 10>>), avg_down_vol)
    THEN "Distribution (heavier volume on down days)"
    ELSE "Balanced (similar volume on up and down days)"

analyze_volume(prices, window, tie) ==
    IF Len(prices) < window THEN None
    ELSE LET volumes == Volumes(prices)
             avg_volume == RDiv(R(SumInt(LastN(volumes, window))), R(window))
             recent_avg == RDiv(R(SumInt(LastN(volumes, 5))), R(5))
             relative_volume == IF RLt(R(0), avg_volume) THEN RDiv(recent_avg, avg_volume)
                                ELSE R(1)
         IN \* prices[i] and prices[i - 1] for i in range(-window, 0)
            IF \E i \in (-window)..(-1) : ~PyHas(prices, i) \/ ~PyHas(prices, i - 1)
            THEN Raised("IndexError")
            ELSE LET avg_up_vol == MeanVol(DayVolumes(prices, window, 1))
                     avg_down_vol == MeanVol(DayVolumes(prices, window, -1))
                 IN Ret(<<avg_volume, recent_avg, relative_volume, avg_up_vol, avg_down_vol>>,
                        [avg_20d |-> RFloor(avg_volume),
                         recent_5d_avg |-> RFloor(recent_avg),
                         relative_volume |-> Round(RMul(relative_volume, R(100)), tie),
                         character |-> VolumeCharacter(avg_up_vol, avg_down_vol)])

\* ------------------------------------------------------------------------
\* _find_support_resistance
\* ------------------------------------------------------------------------
\* sorted(seq): position k holds the value v with fewer than k members below
\* it and at least k members not above it
Sorted(seq) ==
    [k \in 1..Len(seq) |->
        CHOOSE v \in {seq[i] : i \in 1..Len(seq)} :
            /\ Cardinality({i \in 1..Len(seq) : seq[i] < v}) < k
            /\ k <= Cardinality({i \in 1..Len(seq) : seq[i] <= v})]

AllEqual(seq) == \A i \in 1..Len(seq) : seq[i] = seq[1]
Reversed(seq) == [i \in 1..Len(seq) |-> seq[Len(seq) + 1 - i]]

\* values[i] for the 0-based i in range(lookback, len - lookback) that equal the
\* maximum (dir = 1) or minimum (dir = -1) of values[i - lookback : i + lookback + 1]
\* a bug that drops tied extremes: a pivot has to be the only extreme of its window
Pivots_unique(values, lookback, dir) ==
    LET n == Len(values)
        isPivot(e) ==
            LET window == SubSeq(values, e - lookback, e + lookback)
            IN /\ values[e] = (IF dir > 0 THEN MaxInt(window) ELSE MinInt(window))
               /\ Cardinality({k \in 1..Len(window) : window[k] = values[e]}) = 1
        cand == [j \in 1..(IF n - 2 * lookback > 0 THEN n - 2 * lookback ELSE 0) |-> j + lookback]
        hits == SelectSeq(cand, isPivot)
    IN [j \in 1..Len(hits) |-> values[hits[j]]]
Pivots(values, lookback, dir) ==
    LET n == Len(values)
        isPivot(e) ==
            LET window == SubSeq(values, e - lookback, e + lookback)
            IN values[e] = (IF dir > 0 THEN MaxInt(window) ELSE MinInt(window))
        cand == [j \in 1..(IF n - 2 * lookback > 0 THEN n - 2 * lookback ELSE 0) |-> j + lookback]
        hits == SelectSeq(cand, isPivot)
    IN [j \in 1..Len(hits) |-> values[hits[j]]]

ClusterThreshold == <<15, 1000>>
\* a bug that represents a cluster by its lowest member
ClusterMean_lowest(current_cluster) == R(current_cluster[1])
ClusterMean(current_cluster) == RDiv(R(SumInt(current_cluster)), R(Len(current_cluster)))

RECURSIVE ClusterLoop(_, _, _, _, _)
\* the loop body for levels[lo..hi]; `clusters` are the clusters as groups of
\* levels, the last group being current_cluster; a last group <<>> stands for
\* the division by a zero level, which ends the loop
ClusterLoop(levels, threshold, lo, hi, clusters) ==
    IF lo > hi THEN clusters
    ELSE IF lo = hi
    THEN LET current_cluster == clusters[Len(clusters)]
             level == levels[lo]
         IN IF current_cluster = <<>> THEN clusters
            ELSE LET lastv == current_cluster[Len(current_cluster)]
                     ratio == RDiv(R(Abs(level - lastv)), R(lastv))
                 IN IF IsNaN(ratio) THEN Append(clusters, <<>>)
                    ELSE IF RLt(ratio, threshold)
                    THEN [clusters EXCEPT ![Len(clusters)] = Append(current_cluster, level)]
                    ELSE Append(clusters, <<level>>)
    ELSE LET first == ClusterLoop(levels, threshold, lo, (lo + hi) \div 2, clusters)
         IN IF first = <<>> THEN first
            ELSE ClusterLoop(levels, threshold, (lo + hi) \div 2 + 1, hi, first)

ClusterGroups(levels, threshold) ==
    IF levels = <<>> THEN <<>>
    ELSE LET sorted == Sorted(levels)
         IN ClusterLoop(sorted, threshold, 2, Len(sorted), <<<<sorted[1]>>>>)

cluster_levels(levels, threshold) ==
    LET groups == ClusterGroups(levels, threshold)
    IN [j \in 1..Len(groups) |-> ClusterMean(groups[j])]

\* IEEE-754 binary64: the sign of sum(current_cluster) / len(current_cluster) - c
\* for a cluster of k levels all equal to c cents (c / 100 dollars); row c - 87,
\* column k.  Measured on the source expression for c in 88..113, k in 1..53.
ClusterResidueTable ==
    <<
      <<0, 0, 0, 0, 1, 0, 0, 0, 0, 1, 1, 1, 1, 1, 1, 1, 1, 1, 1, 1, 1, 1, 1, 0, 0, 0, -1, -1, -1, -1, -1, -1, -1, -1, -1, -1, -1, -1, -1, -1, 0, 0, 1, 1, 1, 1, 1, 1, 1, 1, 1, 1, 1>>,
      <<0, 0, 0, 0, 0, 0, -1, -1, 0, 0, 1, 1, 1, 1, 1, 1, 1, 1, 1, 1, 1, 1, 1, 1, 1, 1, 1, 1, 1, 1, 1, 1, 1, 1, 1, 1, 1, 1, 1, 1, 1, 1, 1, 1, 1, 1, 1, 1, 1, 1, 1, 1, 1>>,
      <<0, 0, 0, 0, 0, 0, 1, 1, 1, 1, 1, 1, 1, 1, 1, 1, 1, 1, 0, 0, -1, -1, -1, -1, -1, -1, -1, -1, -1, -1, -1, -1, -1, -1, -1, -1, -1, -1, -1, -1, -1, -1, -1, -1, -1, -1, -1, -1, -1, -1, -1, -1, -1>>,
      <<0, 0, 0, 0, -1, 0, 0, 0, -1, -1, 0, 0, 0, 0, 0, 0, 0, -1, -1, -1, -1, 0, 0, 0, 0, 0, 0, 0, 0, 0, 0, 0, 0, 0, 0, -1, -1, -1, -1, -1, -1, -1, -1, -1, -1, -1, -1, -1, -1, -1, -1, -1, -1>>,
      <<0, 0, 0, 0, 1, 0, 0, 0, 1, 1, 0, 0, 0, 0, 0, 0, 0, 1, 1, 1, 1, 1, 1, 1, 1, 1, 1, 1, 1, 1, 1, 1, 1, 1, 1, 1, 1, 1, 1, 1, 1, 1, 1, 1, 1, 1, 1, 1, 1, 1, 1, 1, 1>>,
      <<0, 0, 0, 0, 0, 0, -1, -1, -1, -1, -1, -1, -1, -1, -1, -1, -1, -1, -1, -1, -1, -1, -1, -1, -1, -1, -1, -1, -1, -1, -1, -1, -1, -1, -1, -1, -1, -1, -1, -1, -1, -1, -1, -1, -1, -1, -1, -1, -1, -1, -1, -1, -1>>,
      <<0, 0, 0, 0, -1, -1, -1, -1, -1, -1, -1, -1, -1, -1, -1, -1, -1, -1, -1, -1, 0, 0, 1, 1, 1, 1, 1, 1, 1, 1, 1, 1, 1, 1, 1, 1, 1, 1, 1, 1, 0, 0, -1, -1, -1, -1, -1, -1, -1, -1, -1, -1, -1>>,
      <<0, 0, -1, 0, 0, 1, 1, 1, 1, 0, 0, -1, -1, -1, -1, -1, -1, -1, -1, -1, -1, -1, -1, -1, -1, -1, -1, -1, -1, -1, -1, -1, -1, -1, -1, -1, -1, -1, 0, 0, 1, 1, 1, 1, 1, 1, 1, 1, 1, 1, 1, 1, 1>>,
      <<0, 0, 0, 0, 0, 0, 0, 0, 1, 1, 1, 1, 1, 1, 1, 1, 1, 1, 1, 1, 1, 1, 1, 1, 1, 1, 1, 1, 1, 1, 1, 1, 1, 1, 1, 1, 1, 1, 1, 1, 1, 1, 1, 1, 1, 1, 1, 1, 1, 1, 1, 1, 1>>,
      <<0, 0, 1, 0, 0, -1, -1, -1, -1, 0, 0, 1, 1, 1, 1, 1, 1, 1, 0, 0, -1, -1, -1, -1, -1, -1, -1, -1, -1, -1, -1, -1, -1, -1, -1, -1, -1, -1, -1, -1, -1, -1, -1, -1, -1, -1, -1, -1, -1, -1, -1, -1, -1>>,
      <<0, 0, 0, 0, 1, 1, 1, 1, 1, 1, 1, 1, 1, 1, 1, 1, 1, 1, 1, 1, 1, 1, 1, 1, 1, 1, 1, 1, 1, 1, 1, 1, 1, 1, 1, 0, 0, -1, -1, -1, -1, -1, -1, -1, -1, -1, -1, -1, -1, -1, -1, -1, -1>>,
      <<0, 0, -1, 0, 0, 1, 1, 1, 0, 0, 1, 1, 1, 1, 1, 1, 1, 0, -1, -1, -1, -1, -1, -1, -1, -1, -1, -1, -1, -1, -1, -1, -1, -1, -1, -1, -1, -1, -1, -1, -1, 0, 0, 1, 1, 1, 1, 1, 1, 1, 1, 1, 1>>,
      <<0, 0, 0, 0, 0, 0, 0, 0, 0, 0, 0, 0, 0, 0, 0, 0, 0, 0, 0, 0, 0, 0, 0, 0, 0, 0, 0, 0, 0, 0, 0, 0, 0, 0, 0, 0, 0, 0, 0, 0, 0, 0, 0, 0, 0, 0, 0, 0, 0, 0, 0, 0, 0>>,
      <<0, 0, 0, 0, 0, 0, 0, 0, 0, 0, 0, 0, 0, 0, 0, 0, 0, 1, 1, 1, 1, 1, 1, 1, 1, 1, 1, 1, 1, 1, 1, 1, 1, 1, 1, 1, 1, 1, 1, 1, 0, 0, 0, 0, 0, -1, -1, -1, -1, -1, -1, -1, -1>>,
      <<0, 0, 0, 0, 0, -1, -1, -1, -1, -1, -1, -1, -1, -1, -1, -1, -1, -1, -1, -1, -1, -1, -1, -1, -1, -1, -1, -1, -1, -1, -1, -1, -1, 0, 0, 1, 1, 1, 1, 1, 1, 1, 1, 1, 1, 1, 1, 1, 1, 1, 1, 1, 1>>,
      <<0, 0, 0, 0, 0, 0, 0, 0, 0, -1, -1, -1, -1, -1, -1, -1, -1, 0, 0, 0, 0, 1, 1, 1, 1, 1, 1, 1, 1, 1, 1, 1, 1, 1, 1, 1, 1, 1, 1, 1, 1, 1, 1, 1, 1, 1, 1, 1, 1, 1, 1, 1, 1>>,
      <<0, 0, 0, 0, 0, 0, 0, 0, 0, -1, -1, -1, -1, -1, -1, -1, -1, -1, -1, -1, -1, -1, -1, -1, -1, -1, -1, -1, -1, -1, -1, -1, -1, -1, -1, -1, -1, -1, -1, -1, -1, -1, -1, -1, -1, -1, -1, -1, -1, -1, -1, -1, -1>>,
      <<0, 0, 0, 0, 0, 0, 0, 0, 0, 1, 1, 1, 1, 1, 1, 1, 1, 1, 1, 1, 1, 1, 1, 1, 1, 1, 1, 1, 1, 1, 1, 1, 1, 0, 0, -1, -1, -1, -1, -1, -1, -1, -1, -1, -1, -1, -1, -1, -1, -1, -1, -1, -1>>,
      <<0, 0, 0, 0, 0, 1, 1, 1, 1, 1, 1, 1, 1, 1, 1, 1, 1, 0, 0, 0, -1, -1, -1, -1, -1, -1, -1, -1, -1, -1, -1, -1, -1, -1, -1, -1, 0, 0, 0, 0, 1, 1, 1, 1, 1, 1, 1, 1, 1, 1, 1, 1, 1>>,
      <<0, 0, 0, 0, 0, 0, 0, 0, 0, 0, 0, 0, 0, 0, 0, 0, 0, 0, 0, 0, 0, 0, 0, 0, 0, 0, 0, 0, 0, 0, 0, 0, 0, 0, 0, 0, 0, 0, 0, 0, 0, 0, 0, 0, 0, 0, 0, 0, 0, 0, 0, 0, 0>>,
      <<0, 0, 0, 0, 0, 0, 0, 0, 0, 0, 0, 0, 0, 0, 1, 0, 0, -1, -1, -1, -1, -1, -1, -1, -1, -1, -1, -1, -1, -1, -1, -1, -1, -1, -1, -1, -1, -1, -1, -1, -1, -1, -1, -1, -1, -1, -1, -1, -1, -1, -1, -1, -1>>,
      <<0, 0, 0, 0, 0, 0, 0, 0, 0, 0, 0, 0, 0, 0, 0, 0, 0, 0, 0, 0, 0, 0, 0, 0, 0, 0, 0, 0, 0, 0, 1, 1, 1, 1, 1, 1, 1, 1, 1, 1, 1, 1, 1, 1, 1, 1, 1, 1, 1, 1, 1, 1, 1>>,
      <<0, 0, 0, 0, 0, -1, -1, -1, -1, -1, -1, -1, -1, -1, -1, -1, -1, 0, 0, 0, 1, 1, 1, 1, 1, 1, 1, 1, 1, 1, 1, 1, 1, 1, 1, 1, 1, 1, 1, 1, 1, 1, 1, 1, 1, 1, 1, 1, 1, 1, 1, 1, 1>>,
      <<0, 0, 0, 0, 0, 0, 0, 0, 0, -1, -1, -1, -1, -1, -1, -1, -1, -1, -1, -1, -1, -1, -1, -1, -1, -1, -1, -1, -1, -1, -1, -1, -1, -1, -1, -1, -1, -1, -1, -1, -1, -1, -1, -1, -1, -1, -1, -1, -1, -1, -1, -1, -1>>,
      <<0, 0, 0, 0, 0, 0, 0, 0, 0, 1, 1, 1, 1, 1, 1, 1, 1, 1, 1, 1, 1, 1, 1, 1, 1, 1, 1, 1, 1, 1, 1, 1, 1, 0, 0, 0, -1, -1, -1, -1, -1, -1, -1, -1, -1, -1, -1, -1, -1, -1, -1, -1, -1>>,
      <<0, 0, 0, 0, 0, 0, 0, 0, 0, -1, -1, -1, -1, -1, -1, -1, -1, -1, -1, -1, -1, -1, -1, -1, -1, -1, -1, -1, -1, -1, -1, -1, -1, 0, 0, 0, 1, 1, 1, 1, 1, 1, 1, 1, 1, 1, 1, 1, 1, 1, 1, 1, 1>>
    >>

\* the signs that the float mean of a cluster minus its exact mean can have
ClusterResidueSigns(current_cluster) ==
    LET c == current_cluster[1]
        k == Len(current_cluster)
    IN IF k = 1 THEN {0}
       ELSE IF AllEqual(current_cluster) /\ c >= 88 /\ c <= 113 /\ k <= 53
       THEN {ClusterResidueTable[c - 87][k]}
       ELSE CmpNoise

\* cluster j compared with a close that its exact mean equals: the sign of
\* float mean - close
ClusterVsClose(groups, j, noise) ==
    LET signs == ClusterResidueSigns(groups[j])
    IN IF noise \in signs THEN noise ELSE CHOOSE b \in signs : TRUE

PivotHighs(prices) == Pivots(Highs(prices), 5, 1)
PivotLows(prices) == Pivots(Lows(prices), 5, -1)

\* the members of `means` at the indices `kept`
AtIndices(means, kept) == [i \in 1..Len(kept) |-> means[kept[i]]]

\* [r for r in cluster_levels(pivot_highs) if r > current][:num_levels]
ResistanceLevels(prices, num_levels, noise) ==
    LET current == PyAt(Closes(prices), -1)
        groups == ClusterGroups(PivotHighs(prices), ClusterThreshold)
        means == cluster_levels(PivotHighs(prices), ClusterThreshold)
        above(j) == \/ RLt(R(current), means[j])
                    \/ REq(means[j], R(current)) /\ ClusterVsClose(groups, j, noise) > 0
    IN FirstN(AtIndices(means, SelectSeq([j \in 1..Len(means) |-> j], above)), num_levels)
\* a bug that forgets reversed(): the farthest support comes first
SupportLevels_ascending(prices, num_levels, noise) ==
    LET current == PyAt(Closes(prices), -1)
        groups == ClusterGroups(PivotLows(prices), ClusterThreshold)
        means == cluster_levels(PivotLows(prices), ClusterThreshold)
        below(j) == \/ RLt(means[j], R(current))
                    \/ REq(means[j], R(current)) /\ ClusterVsClose(groups, j, noise) < 0
    IN FirstN(AtIndices(means, SelectSeq([j \in 1..Len(means) |-> j], below)), num_levels)
\* [s for s in reversed(cluster_levels(pivot_lows)) if s < current][:num_levels]
SupportLevels(prices, num_levels, noise) ==
    LET current == PyAt(Closes(prices), -1)
        groups == ClusterGroups(PivotLows(prices), ClusterThreshold)
        means == cluster_levels(PivotLows(prices), ClusterThreshold)
        below(j) == \/ RLt(means[j], R(current))
                    \/ REq(means[j], R(current)) /\ ClusterVsClose(groups, j, noise) < 0
    IN FirstN(AtIndices(means, SelectSeq(Reversed([j \in 1..Len(means) |-> j]), below)), num_levels)

\* an Optional is a sequence: <<>> is None, <<x>> is the value x
Truthy(opt) == opt # <<>> /\ opt[1] # 0
PctFrom(current, all_extreme) ==
    IF Truthy(all_extreme)
    THEN <<RMul(RDiv(R(current - all_extreme[1]), R(all_extreme[1])), R(100))>>
    ELSE <<>>

\* a bug that tests the value instead of `is not None`: 0.0 becomes None
OptRound_truthy(opt, scale, tie) ==
    IF opt # <<>> /\ ~RIsZero(opt[1]) THEN <<Round(RMul(opt[1], R(scale)), tie)>> ELSE <<>>
\* round(x, nd) if x is not None else None
OptRound(opt, scale, tie) ==
    IF opt # <<>> THEN <<Round(RMul(opt[1], R(scale)), tie)>> ELSE <<>>

find_support_resistance(prices, num_levels, tie, noise) ==
    IF Len(prices) < 20 THEN None
    ELSE LET highs == Highs(prices)
             lows == Lows(prices)
             current == PyAt(Closes(prices), -1)
             resistance_levels == ResistanceLevels(prices, num_levels, noise)
             support_levels == SupportLevels(prices, num_levels, noise)
             all_highs == IF highs # <<>> THEN <<MaxInt(highs)>> ELSE <<>>
             all_lows == IF lows # <<>> THEN <<MinInt(lows)>> ELSE <<>>
             pct_from_high == PctFrom(current, all_highs)
             pct_from_low == PctFrom(current, all_lows)
         IN Ret(cluster_levels(PivotHighs(prices), ClusterThreshold)
                  \o cluster_levels(PivotLows(prices), ClusterThreshold)
                  \o pct_from_high \o pct_from_low,
                [resistance |-> [j \in 1..Len(resistance_levels) |-> Round(resistance_levels[j], tie)],
                 support |-> [j \in 1..Len(support_levels) |-> Round(support_levels[j], tie)],
                 period_high |-> IF Truthy(all_highs) THEN <<all_highs[1]>> ELSE <<>>,
                 period_low |-> IF Truthy(all_lows) THEN <<all_lows[1]>> ELSE <<>>,
                 pct_from_high |-> OptRound(pct_from_high, 10, tie),
                 pct_from_low |-> OptRound(pct_from_low, 10, tie)])

\* ------------------------------------------------------------------------
\* _compute_fibonacci
\* ------------------------------------------------------------------------
\* the retracement fractions, in thousandths, of the five inner levels
FibLabels == <<"0.0% (high)", "23.6%", "38.2%", "50.0%", "61.8%", "78.6%", "100.0% (low)">>
FibThousandths == <<0, 236, 382, 500, 618, 786, 1000>>

\* a bug that measures the retracement up from the low
FibLevels_fromlow(swing_high, swing_low, tie) ==
    LET diff == swing_high - swing_low
    IN [j \in 1..7 |->
          [label |-> FibLabels[j],
           level |-> IF j = 1 THEN swing_high
                     ELSE IF j = 7 THEN swing_low
                     ELSE Round(Norm(1000 * swing_low + FibThousandths[j] * diff, 1000), tie)]]

FibLevels(swing_high, swing_low, tie) ==
    LET diff == swing_high - swing_low
    IN [j \in 1..7 |->
          [label |-> FibLabels[j],
           level |-> IF j = 1 THEN swing_high
                     ELSE IF j = 7 THEN swing_low
                     ELSE Round(Norm(1000 * swing_high - FibThousandths[j] * diff, 1000), tie)]]

\* the level stored under a label
FibLevelOf(levels, label) ==
    levels[CHOOSE j \in 1..Len(levels) : levels[j].label = label].level

RECURSIVE FibNearest(_, _, _, _, _, _)
\* nearest_dist is <<>> for float("inf")
FibNearest(levels, j, current, nearest_level, nearest_dist, noise) ==
    IF j > Len(levels) THEN nearest_level
    ELSE LET dist == Abs(current - levels[j].level)
         IN \* the distances to two different levels that are equal in cents
            \* differ by float rounding; the distances to one level value
            \* under two labels are the same float
            IF nearest_dist = <<>> \/ dist < nearest_dist[1]
               \/ (/\ dist = nearest_dist[1] /\ noise < 0
                   /\ levels[j].level # FibLevelOf(levels, nearest_level[1]))
            THEN FibNearest(levels, j + 1, current, <<levels[j].label>>, <<dist>>, noise)
            ELSE FibNearest(levels, j + 1, current, nearest_level, nearest_dist, noise)

\* a bug that forgets abs(): the signed distance current - level is smallest
\* at the highest level, which is the first one
compute_fibonacci_signed(prices, tie, noise) ==
    IF Len(prices) < 20 THEN None
    ELSE LET swing_high == MaxInt(Highs(prices))
             swing_low == MinInt(Lows(prices))
         IN IF swing_high = swing_low THEN None
            ELSE LET levels == FibLevels(swing_high, swing_low, tie)
                 IN Present([levels |-> levels,
                             nearest_level |-> <<levels[1].label>>,
                             swing_high |-> swing_high,
                             swing_low |-> swing_low])

compute_fibonacci(prices, tie, noise) ==
    IF Len(prices) < 20 THEN None
    ELSE LET swing_high == MaxInt(Highs(prices))
             swing_low == MinInt(Lows(prices))
             current == PyAt(prices, -1).close
         IN IF swing_high = swing_low THEN None
            ELSE LET levels == FibLevels(swing_high, swing_low, tie)
                 IN Present([levels |-> levels,
                             nearest_level |-> FibNearest(levels, 1, current, <<>>, <<>>, noise),
                             swing_high |-> swing_high,
                             swing_low |-> swing_low])

\* ------------------------------------------------------------------------
\* _assess_trend
\* ------------------------------------------------------------------------
\* a bug that lets equal averages count as ordered
TrendAlignment_nonstrict(ema_9, ema_21, sma_50) ==
    IF RLe(ema_21, ema_9) /\ RLe(sma_50, ema_21)
    THEN "BULLISH alignment (EMA-9 > EMA-21 > SMA-50)"
    ELSE IF RLe(ema_9, ema_21) /\ RLe(ema_21, sma_50)
    THEN "BEARISH alignment (EMA-9 < EMA-21 < SMA-50)"
    ELSE "Mixed alignment (no clear trend hierarchy)"
TrendAlignment(ema_9, ema_21, sma_50) ==
    IF RLt(ema_21, ema_9) /\ RLt(sma_50, ema_21)
    THEN "BULLISH alignment (EMA-9 > EMA-21 > SMA-50)"
    ELSE IF RLt(ema_9, ema_21) /\ RLt(ema_21, sma_50)
    THEN "BEARISH alignment (EMA-9 < EMA-21 < SMA-50)"
    ELSE "Mixed alignment (no clear trend hierarchy)"

PeriodChange(closes, n) ==
    RDiv(R(PyAt(closes, -1) - PyAt(closes, -n)), R(PyAt(closes, -n)))

assess_trend(prices, tie) ==
    LET closes == Closes(prices)
    IN IF Len(closes) < 50 THEN None
       ELSE IF \E i \in (-20)..(-1) : ~PyHas(closes, i - 1) THEN Raised("IndexError")
       ELSE LET short_change == PeriodChange(closes, 5)
                med_change == PeriodChange(closes, 20)
                long_change == PeriodChange(closes, 50)
                ema_9 == PyAt(ema(ToQ(closes), 9), -1)
                ema_21 == PyAt(ema(ToQ(closes), 21), -1)
                sma_50 == RDiv(R(SumInt(LastN(closes, 50))), R(50))
                up_days == Cardinality({i \in (-20)..(-1) : PyAt(closes, i) > PyAt(closes, i - 1)})
                down_days == 20 - up_days
            IN Ret(<<short_change, med_change, long_change, ema_9, ema_21, sma_50>>,
                   [short_5d |-> Round(RMul(short_change, R(10000)), tie),
                    medium_20d |-> Round(RMul(med_change, R(10000)), tie),
                    long_50d |-> Round(RMul(long_change, R(10000)), tie),
                    ma_alignment |-> TrendAlignment(ema_9, ema_21, sma_50),
                    up_days_20 |-> up_days,
                    down_days_20 |-> down_days])

\* ------------------------------------------------------------------------
\* Inputs: price series the market-data collaborator can supply
\* ------------------------------------------------------------------------
Bar(c, s, v) == [open |-> c, high |-> c + s, low |-> c - s, close |-> c, volume |-> v]

BasePrices == {100, 101}
\* <<spread, volume>> of a bar: flat bar without volume, flat bar, bar with a range
Shapes == {<<0, 0>>, <<0, 1000>>, <<1, 1000>>}
\* <<d1, d2>>: the moves of the last two bars
TailPairs == {<<0, 0>>, <<0, 2>>, <<-2, 5>>, <<2, -5>>, <<2, 0>>, <<-5, -2>>}

\* n bars: flat at c, the last two bars moving by d1 and then by d2
FlatTail(n, c, s, v, d1, d2) ==
    [i \in 1..n |->
        IF i = n /\ n >= 2 THEN Bar(c + d1 + d2, s, 3 * v)
        ELSE IF i = n - 1 /\ n >= 3 THEN Bar(c + d1, s, 2 * v)
        ELSE Bar(c, s, v)]

FlatTailSeries ==
    {FlatTail(n, c, sh[1], sh[2], t[1], t[2]) :
        n \in 0..MaxLen, c \in BasePrices, sh \in Shapes, t \in TailPairs}

ShortVals == {1, 2, 3, 5}
ShortSeries ==
    UNION {{[i \in 1..n |-> Bar(f[i], 0, 1000)] : f \in [1..n -> ShortVals]} : n \in 0..MaxShort}

\* n bars rising by `slope` cents a bar from c (slope 0: all-equal closes)
Ramp(n, c, slope, s, v) == [i \in 1..n |-> Bar(c + slope * (i - 1), s, v)]
Slopes == {-1, 0, 1, 2}
RampSeries ==
    {Ramp(n, 100, slope, sh[1], sh[2]) : n \in 0..MaxLen, slope \in Slopes, sh \in Shapes}

\* n bars whose close moves by the steps of a repeating 3-step pattern
MinVaried == 15
MaxVaried == 17
Steps == {-1, 0, 2}
RECURSIVE Cumulative(_, _)
Cumulative(pat, i) == IF i <= 1 THEN 0 ELSE Cumulative(pat, i - 1) + pat[((i - 2) % Len(pat)) + 1]
VariedSeries ==
    {[i \in 1..n |-> Bar(100 + Cumulative(pat, i), 1, 1000)] :
        n \in MinVaried..MaxVaried, pat \in [1..3 -> Steps]}

\* n bars at `base` with a one-bar spike every 6th bar; the spikes repeat a
\* 4-spike pattern of offsets, upwards (sign 1) or downwards (sign -1)
MaxStructLen == 31
SpikeOffsets == {0, 1, 2, 6, 9}
\* <<sign, spread>>
SpikeShapes == {<<1, 0>>, <<-1, 1>>}
SpikeLens == {20} \cup ((MaxStructLen - 1)..MaxStructLen)
Spike(n, base, sign, s, offs) ==
    [i \in 1..n |->
        IF i % 6 = 0
        THEN Bar(base + sign * offs[(((i \div 6) - 1) % Len(offs)) + 1], s, 3000)
        ELSE Bar(base, s, 1000)]
SpikeSeries ==
    {Spike(n, 100, sh[1], sh[2], offs) :
        n \in SpikeLens, sh \in SpikeShapes, offs \in [1..4 -> SpikeOffsets]}

\* n bars at c with one early shock of h cents at bar `at` and a last bar
\* that moves by t cents: a volatile past followed by a calm present
MinCalmLen == 39
MaxCalmLen == 41
ShockBars == {5, 19, 21, 25}
ShockSizes == {0, 1, 9, -9}
LastMoves == {0, 1, 5}
ShockVolumes == {1200, 3000}
Calm(n, c, at, h, t, v) ==
    [i \in 1..n |->
        IF i = n THEN Bar(c + t, 0, 1000)
        ELSE IF i = at THEN Bar(c + h, 0, v)
        ELSE Bar(c, 0, 1000)]
CalmSeries ==
    {Calm(n, c, at, h, t, v) :
        n \in MinCalmLen..MaxCalmLen, c \in BasePrices, at \in ShockBars,
        h \in ShockSizes, t \in LastMoves, v \in ShockVolumes}

\* ------------------------------------------------------------------------
\* State and calls
\* ------------------------------------------------------------------------
VARIABLES prices, last
\* technicals_agent: the market data of the tickers, the ticker in work, the
\* position in the loop body, the indicator results of this ticker, the
\* signals appended, the prompts sent to the language model, the indicator
\* calls made so far and the rounding behaviour of the platform's floats
VARIABLES market_data, ticker, pc, results, signals, llm_calls, calls, fpu
agent == <<market_data, ticker, pc, results, signals, llm_calls, calls, fpu>>
\* the pipeline graph: the AgentState held in the graph's channels, the status
\* of each node's task in the current superstep, the state updates returned
\* by the tasks and not yet applied, the start / end / raise events of the
\* nodes so far and the status of the run
VARIABLES state, tasks, writes, trace, run
graph == <<state, tasks, writes, trace, run>>
\* call_llm: the position in the function, the response model asked for, the
\* attempt under way, the local variable raw, what the invocations of the
\* language model did so far and how the call ended
VARIABLES llm_pc, response_model, attempt, raw, invoked, returned
llm == <<llm_pc, response_model, attempt, raw, invoked, returned>>
\* one /stream response: the position of the worker thread, the chunks that
\* graph.stream has yielded, the queue.put coroutines handed to the event loop
\* and not yet run, the asyncio queue, the events sent and the position of
\* the event generator
VARIABLES worker_pc, produced, scheduled, queue, events, gen_pc
stream == <<worker_pc, produced, scheduled, queue, events, gen_pc>>
\* the research documents: _session_store, the clock, the number of session
\* ids handed out, the /analyze request under way, the last response sent,
\* how often the documents of a session were handed to a /stream request,
\* the ticker list of the request that created a session and the number of
\* file inputs of the forms
VARIABLES session_store, now, next_sid, req, response, deliveries, submitted, form_files
sessions == <<session_store, now, next_sid, req, response, deliveries, submitted, form_files>>
service == <<graph, llm, stream, sessions>>
vars == <<prices, last, agent, service>>

NoCall == [fn |-> "none", arg |-> 0, out |-> None]
\* no run of technicals_agent is under way
AgentIdle ==
    /\ market_data = <<>> /\ ticker = 0 /\ pc = "idle"
    /\ results = <<>> /\ signals = <<>> /\ llm_calls = <<>> /\ calls = <<>>
    /\ fpu = [tie |-> "down", noise |-> 0]

\* no run of the pipeline graph is under way
GraphIdle ==
    /\ state = <<>> /\ tasks = <<>> /\ writes = <<>> /\ trace = <<>>
    /\ run = "idle"
\* a local variable that no assignment has bound yet
Unbound == "unbound"
\* no call of call_llm is under way
LlmIdle ==
    /\ llm_pc = "idle" /\ response_model = "None" /\ attempt = 0
    /\ raw = Unbound /\ invoked = <<>> /\ returned = None
\* no /stream response is under way
StreamIdle ==
    /\ worker_pc = "idle" /\ gen_pc = "idle"
    /\ produced = <<>> /\ scheduled = <<>> /\ queue = <<>> /\ events = <<>>
\* an empty dict
EmptyDict == <<>>
NoRequest == [pc |-> "idle", expired |-> {}, ticker_list |-> <<>>,
              research_docs |-> EmptyDict, i |-> 0]
NoResponse == [route |-> "none", status |-> "none", sid |-> "", docs |-> EmptyDict]
\* the server has just started: the store is empty
SessionsIdle ==
    /\ session_store = EmptyDict /\ now = 0 /\ next_sid = 1
    /\ req = NoRequest /\ response = NoResponse
    /\ deliveries = EmptyDict /\ submitted = EmptyDict
ServiceIdle == GraphIdle /\ LlmIdle /\ StreamIdle /\ SessionsIdle /\ form_files = 0

Init ==
    /\ prices \in FlatTailSeries \cup ShortSeries
    /\ last = NoCall
    /\ AgentIdle
    /\ ServiceIdle

Spans == (1..MaxSpan) \cup {9, 21}

Call_ema ==
    /\ last = NoCall
    /\ \E span \in Spans :
          last' = [fn |-> "_ema", arg |-> span, out |-> Present(ema(ToQ(Closes(prices)), span))]
    /\ UNCHANGED <<prices, agent, service>>

Call_compute_ema_value ==
    /\ last = NoCall
    /\ \E span \in Spans :
          last' = [fn |-> "_compute_ema_value", arg |-> span, out |-> compute_ema_value(prices, span)]
    /\ UNCHANGED <<prices, agent, service>>

Call_compute_sma ==
    /\ last = NoCall
    /\ \E window \in (1..MaxSpan) \cup {50} :
          last' = [fn |-> "_compute_sma", arg |-> window, out |-> compute_sma(prices, window)]
    /\ UNCHANGED <<prices, agent, service>>

Call_compute_rsi ==
    /\ last = NoCall
    /\ last' = [fn |-> "_compute_rsi", arg |-> 14, out |-> compute_rsi(prices, 14)]
    /\ UNCHANGED <<prices, agent, service>>

Call_compute_macd ==
    /\ last = NoCall
    /\ \E tie \in TieBreak :
          last' = [fn |-> "_compute_macd", arg |-> 0, out |-> compute_macd(prices, tie)]
    /\ UNCHANGED <<prices, agent, service>>

Call_compute_bollinger_bands ==
    /\ last = NoCall
    /\ \E tie \in TieBreak :
          last' = [fn |-> "_compute_bollinger_bands", arg |-> 20,
                   out |-> compute_bollinger_bands(prices, 20, 2, tie)]
    /\ UNCHANGED <<prices, agent, service>>

Call_compute_atr ==
    /\ last = NoCall
    /\ \E tie \in TieBreak :
          last' = [fn |-> "_compute_atr", arg |-> 14, out |-> compute_atr(prices, 14, tie)]
    /\ UNCHANGED <<prices, agent, service>>

Call_compute_stochastic ==
    /\ last = NoCall
    /\ \E tie \in TieBreak :
          last' = [fn |-> "_compute_stochastic", arg |-> 14,
                   out |-> compute_stochastic(prices, 14, 3, tie)]
    /\ UNCHANGED <<prices, agent, service>>

Call_compute_obv ==
    /\ last = NoCall
    /\ last' = [fn |-> "_compute_obv", arg |-> 0, out |-> compute_obv(prices)]
    /\ UNCHANGED <<prices, agent, service>>

Call_analyze_volume ==
    /\ last = NoCall
    /\ \E tie \in TieBreak :
          last' = [fn |-> "_analyze_volume", arg |-> 20, out |-> analyze_volume(prices, 20, tie)]
    /\ UNCHANGED <<prices, agent, service>>

Call_find_support_resistance ==
    /\ last = NoCall
    /\ \E tie \in TieBreak, noise \in CmpNoise :
          last' = [fn |-> "_find_support_resistance", arg |-> 3,
                   out |-> find_support_resistance(prices, 3, tie, noise)]
    /\ UNCHANGED <<prices, agent, service>>

Call_compute_fibonacci ==
    /\ last = NoCall
    /\ \E tie \in TieBreak, noise \in CmpNoise :
          last' = [fn |-> "_compute_fibonacci", arg |-> 0,
                   out |-> compute_fibonacci(prices, tie, noise)]
    /\ UNCHANGED <<prices, agent, service>>

Call_assess_trend ==
    /\ last = NoCall
    /\ \E tie \in TieBreak :
          last' = [fn |-> "_assess_trend", arg |-> 0, out |-> assess_trend(prices, tie)]
    /\ UNCHANGED <<prices, agent, service>>

Next ==
    \/ Call_find_support_resistance
    \/ Call_compute_fibonacci
    \/ Call_assess_trend
    \/ Call_compute_atr
    \/ Call_compute_stochastic
    \/ Call_compute_obv
    \/ Call_analyze_volume
    \/ Call_compute_macd
    \/ Call_compute_bollinger_bands
    \/ Call_ema
    \/ Call_compute_ema_value
    \/ Call_compute_sma
    \/ Call_compute_rsi

Spec == Init /\ [][Next]_vars

\* Wilder-smoothed indicators on ramps and on short varied series
InitWilder ==
    /\ prices \in RampSeries \cup VariedSeries
    /\ last = NoCall
    /\ AgentIdle
    /\ ServiceIdle
NextWilder ==
    \/ Call_compute_rsi
    \/ Call_compute_atr
SpecWilder == InitWilder /\ [][NextWilder]_vars

\* window and structure indicators on spiked series
InitStruct ==
    /\ prices \in SpikeSeries
    /\ last = NoCall
    /\ AgentIdle
    /\ ServiceIdle
NextStruct ==
    \/ Call_find_support_resistance
    \/ Call_compute_fibonacci
    \/ Call_compute_bollinger_bands
    \/ Call_compute_stochastic
    \/ Call_compute_obv
    \/ Call_analyze_volume
    \/ Call_compute_sma
SpecStruct == InitStruct /\ [][NextStruct]_vars

\* the Bollinger bands, the volume character and the moving average on series
\* that calm down
InitCalm ==
    /\ prices \in CalmSeries
    /\ last = NoCall
    /\ AgentIdle
    /\ ServiceIdle
NextCalm ==
    \/ Call_compute_bollinger_bands
    \/ Call_analyze_volume
    \/ Call_compute_sma
SpecCalm == InitCalm /\ [][NextCalm]_vars

\* ------------------------------------------------------------------------
\* technicals_agent: one ticker after the other
\* ------------------------------------------------------------------------
\* state["tickers"]
Tickers == <<"AAA", "BBB", "CCC">>
\* the price histories the market data can hold for a ticker: none, too short
\* for every indicator, long enough for most, for all
AgentLens == {0, 8, 21, 50}
AgentSeries == {FlatTail(n, 100, 1, 1000, 2, -5) : n \in AgentLens}
FpModes == [tie : TieBreak, noise : CmpNoise]

\* the indicator calls of the loop body, in the order of the source
IndicatorOrder ==
    << <<"_compute_ema_value", 9>>, <<"_compute_ema_value", 21>>, <<"_compute_sma", 50>>,
       <<"_compute_rsi", 14>>, <<"_compute_macd", 0>>, <<"_compute_stochastic", 14>>,
       <<"_compute_bollinger_bands", 20>>, <<"_compute_atr", 14>>, <<"_compute_obv", 0>>,
       <<"_analyze_volume", 20>>, <<"_find_support_resistance", 3>>,
       <<"_compute_fibonacci", 0>>, <<"_assess_trend", 0>> >>

\* a bug that keeps the OBV accumulator of the previous call instead of
\* starting from 0
Indicator_carry(fn, arg, series, fp) ==
    CASE fn = "_compute_ema_value" -> compute_ema_value(series, arg)
      [] fn = "_compute_sma" -> compute_sma(series, arg)
      [] fn = "_compute_rsi" -> compute_rsi(series, arg)
      [] fn = "_compute_macd" -> compute_macd(series, fp.tie)
      [] fn = "_compute_stochastic" -> compute_stochastic(series, arg, 3, fp.tie)
      [] fn = "_compute_bollinger_bands" -> compute_bollinger_bands(series, arg, 2, fp.tie)
      [] fn = "_compute_atr" -> compute_atr(series, arg, fp.tie)
      [] fn = "_compute_obv" ->
            LET r == compute_obv(series)
                earlier == {i \in 1..Len(calls) :
                               calls[i].fn = fn /\ calls[i].out.status = "present"}
            IN IF r.status = "present" /\ earlier # {}
               THEN LET i == CHOOSE i \in earlier : \A k \in earlier : k <= i
                    IN [r EXCEPT !.val.obv = @ + calls[i].out.val.obv]
               ELSE r
      [] fn = "_analyze_volume" -> analyze_volume(series, arg, fp.tie)
      [] fn = "_find_support_resistance" ->
            find_support_resistance(series, arg, fp.tie, fp.noise)
      [] fn = "_compute_fibonacci" -> compute_fibonacci(series, fp.tie, fp.noise)
      [] fn = "_assess_trend" -> assess_trend(series, fp.tie)
Indicator(fn, arg, series, fp) ==
    CASE fn = "_compute_ema_value" -> compute_ema_value(series, arg)
      [] fn = "_compute_sma" -> compute_sma(series, arg)
      [] fn = "_compute_rsi" -> compute_rsi(series, arg)
      [] fn = "_compute_macd" -> compute_macd(series, fp.tie)
      [] fn = "_compute_stochastic" -> compute_stochastic(series, arg, 3, fp.tie)
      [] fn = "_compute_bollinger_bands" -> compute_bollinger_bands(series, arg, 2, fp.tie)
      [] fn = "_compute_atr" -> compute_atr(series, arg, fp.tie)
      [] fn = "_compute_obv" -> compute_obv(series)
      [] fn = "_analyze_volume" -> analyze_volume(series, arg, fp.tie)
      [] fn = "_find_support_resistance" ->
            find_support_resistance(series, arg, fp.tie, fp.noise)
      [] fn = "_compute_fibonacci" -> compute_fibonacci(series, fp.tie, fp.noise)
      [] fn = "_assess_trend" -> assess_trend(series, fp.tie)

\* `if x:` on an Optional[float] and on an Optional[dict]; `x is not None`
FloatTruthy(r) == r.status = "present" /\ ~RIsZero(r.val)
DictTruthy(r) == r.status = "present"
IsNotNone(r) == r.status = "present"
\* the sections of the prompt that carry indicator data instead of "N/A"
PromptSections(res) ==
    {"1. TREND" : x \in {13} \cap {k \in {13} : DictTruthy(res[k])}}
    \cup {"2. MOVING AVERAGES" : x \in {k \in 1..3 : FloatTruthy(res[k])}}
    \cup {"3. RSI" : x \in {k \in {4} : IsNotNone(res[k])}}
    \cup {"4. MACD" : x \in {k \in {5} : DictTruthy(res[k])}}
    \cup {"5. STOCHASTIC" : x \in {k \in {6} : DictTruthy(res[k])}}
    \cup {"6. BOLLINGER BANDS" : x \in {k \in {7} : DictTruthy(res[k])}}
    \cup {"7. ATR" : x \in {k \in {8} : DictTruthy(res[k])}}
    \cup {"8. VOLUME" : x \in {k \in {10} : DictTruthy(res[k])}}
    \cup {"9. ON-BALANCE VOLUME" : x \in {k \in {9} : DictTruthy(res[k])}}
    \cup {"10. SUPPORT / RESISTANCE" : x \in {k \in {11} : DictTruthy(res[k])}}
    \cup {"11. FIBONACCI RETRACEMENT" : x \in {k \in {12} : DictTruthy(res[k])}}

\* the signal appended for a ticker without price data (confidence in percent)
NeutralSignal(t) ==
    [agent_name |-> "Technicals Agent", ticker |-> t, signal |-> "neutral",
     confidence |-> 10, reasoning |-> "No price data available"]
\* call_llm: a parsed TradingSignal, or ValueError after the last failed attempt
LlmReplies == {[signal |-> "bullish", confidence |-> 80, reasoning |-> "analysis"]}
LlmOutcomes == {"parsed", "ValueError"}

InitAgent ==
    /\ market_data \in [1..Len(Tickers) -> AgentSeries]
    /\ fpu \in FpModes
    /\ ticker = 1 /\ pc = "loop"
    /\ prices = <<>> /\ last = NoCall
    /\ results = <<>> /\ signals = <<>> /\ llm_calls = <<>> /\ calls = <<>>
    /\ ServiceIdle

\* for ticker in state["tickers"]: fetch the prices; without prices append the
\* neutral signal and continue with the next ticker
AgentNextTicker ==
    /\ pc = "loop" /\ ticker <= Len(Tickers)
    /\ prices' = market_data[ticker]
    /\ results' = <<>>
    /\ IF market_data[ticker] = <<>>
       THEN /\ signals' = Append(signals, NeutralSignal(Tickers[ticker]))
            /\ ticker' = ticker + 1
            /\ pc' = "loop"
       ELSE /\ pc' = "compute"
            /\ UNCHANGED <<signals, ticker>>
    /\ UNCHANGED <<last, market_data, llm_calls, calls, fpu, service>>

\* the next indicator call of the loop body; an exception leaves the agent
AgentCompute ==
    /\ pc = "compute"
    /\ LET k == Len(results) + 1
           fn == IndicatorOrder[k][1]
           arg == IndicatorOrder[k][2]
       IN \E out \in {Indicator(fn, arg, prices, fpu)} :
          /\ last' = [fn |-> fn, arg |-> arg, out |-> out]
          /\ prices' = prices
          /\ calls' = Append(calls, [fn |-> fn, arg |-> arg, input |-> prices,
                                     after |-> prices', out |-> out])
          /\ IF out.status = "raised"
             THEN pc' = "raised" /\ UNCHANGED results
             ELSE /\ results' = Append(results, out)
                  /\ pc' = IF k = Len(IndicatorOrder) THEN "prompt" ELSE "compute"
    /\ UNCHANGED <<market_data, ticker, signals, llm_calls, fpu, service>>

\* build the prompt from the indicator results, call the language model and
\* append its signal
AgentPrompt ==
    /\ pc = "prompt"
    /\ llm_calls' = Append(llm_calls, [ticker |-> Tickers[ticker], days |-> Len(prices),
                                       data |-> PromptSections(results)])
    /\ \E outcome \in LlmOutcomes :
          IF outcome = "ValueError"
          THEN pc' = "raised" /\ UNCHANGED <<signals, ticker>>
          ELSE \E reply \in LlmReplies :
                 /\ signals' = Append(signals,
                        [agent_name |-> "Technicals Agent", ticker |-> Tickers[ticker],
                         signal |-> reply.signal, confidence |-> reply.confidence,
                         reasoning |-> reply.reasoning])
                 /\ ticker' = ticker + 1
                 /\ pc' = "loop"
    /\ UNCHANGED <<prices, last, market_data, results, calls, fpu, service>>

\* return {"signals": signals}
AgentReturn ==
    /\ pc = "loop" /\ ticker > Len(Tickers)
    /\ pc' = "done"
    /\ UNCHANGED <<prices, last, market_data, ticker, results, signals, llm_calls, calls, fpu, service>>

NextAgent ==
    \/ AgentNextTicker
    \/ AgentCompute
    \/ AgentPrompt
    \/ AgentReturn
SpecAgent == InitAgent /\ [][NextAgent]_vars

\* ------------------------------------------------------------------------
\* The pipeline graph (graph.py), run by the graph library in supersteps:
\* the nodes triggered by the nodes of the previous superstep run in
\* parallel, and the updates they return are merged into the state when all
\* of them have returned
\* ------------------------------------------------------------------------
MaxTickers == 2
PipelineTickers == {"AAA", "BBB"}
\* state["tickers"], repetitions included
TickerLists == UNION {[1..n -> PipelineTickers] : n \in 0..MaxTickers}

START == "__start__"
END == "__end__"
Nodes == {"fetch_data", "fundamentals", "technicals", "sentiment",
          "risk_manager", "portfolio_manager"}
AnalysisNodes == {"fundamentals", "technicals", "sentiment"}

\* a bug that wires sentiment to the portfolio manager, past the risk manager
Edges_bypass ==
    {<<START, "fetch_data">>,
     <<"fetch_data", "fundamentals">>, <<"fetch_data", "technicals">>,
     <<"fetch_data", "sentiment">>,
     <<"fundamentals", "risk_manager">>, <<"technicals", "risk_manager">>,
     <<"sentiment", "portfolio_manager">>,
     <<"risk_manager", "portfolio_manager">>, <<"portfolio_manager", END>>}

\* set_entry_point and add_edge of build_graph
Edges ==
    {<<START, "fetch_data">>,
     <<"fetch_data", "fundamentals">>, <<"fetch_data", "technicals">>,
     <<"fetch_data", "sentiment">>,
     <<"fundamentals", "risk_manager">>, <<"technicals", "risk_manager">>,
     <<"sentiment", "risk_manager">>,
     <<"risk_manager", "portfolio_manager">>, <<"portfolio_manager", END>>}

\* the nodes that an edge leads to from one of the nodes in from
Triggered(from) == {n \in Nodes : \E d \in from : <<d, n>> \in Edges}

\* what get_all_market_data can hold for a ticker: everything, or prices but
\* neither financial statements nor news
FullData == [prices |-> TRUE, data_quality |-> "good", news |-> TRUE]
PricesOnly == [prices |-> TRUE, data_quality |-> "unavailable", news |-> FALSE]
DataKinds == {FullData, PricesOnly}
\* state["market_data"].get(ticker, {}) with the defaults of the data.get calls
DictGet(d, k) ==
    IF k \in DOMAIN d THEN d[k]
    ELSE [prices |-> FALSE, data_quality |-> "unknown", news |-> FALSE]

\* run_hedge_fund / stream_analysis: the initial state
InitialState(ticker_list) ==
    [tickers |-> ticker_list, market_data |-> <<>>, signals |-> <<>>,
     risk_assessments |-> <<>>, decisions |-> <<>>]

\* the update a node returns: the one key of its dict and the value
Update(channel, value) == [channel |-> channel, value |-> value]
NoUpdate == Update("none", <<>>)

\* fetch_market_data: one entry per ticker of the list
fetch_market_data(st, md) == Present(Update("market_data", md))

\* the branch of an analysis agent that appends the neutral signal without
\* asking the language model
NoDataBranch(node, data) ==
    CASE node = "fundamentals" -> data.data_quality = "unavailable"
      [] node = "technicals" -> ~data.prices
      [] node = "sentiment" -> ~data.news
AgentName(node) ==
    CASE node = "fundamentals" -> "Fundamentals Agent"
      [] node = "technicals" -> "Technicals Agent"
      [] node = "sentiment" -> "Sentiment Agent"
\* confidence in hundredths
DefaultSignal(node, tk) ==
    [agent_name |-> AgentName(node), ticker |-> tk, signal |-> "neutral",
     confidence |-> IF node = "sentiment" THEN 15 ELSE 10]
\* the TradingSignal that call_llm returns: the model names the agent and
\* the ticker as it likes
LlmSignal == [agent_name |-> "model", ticker |-> "ZZZ", signal |-> "bullish",
              confidence |-> 80]

RECURSIVE AnalysisLoop(_, _, _, _, _)
\* the loop over state["tickers"] of fundamentals_agent, technicals_agent and
\* sentiment_agent; the fail-th call of call_llm raises (0: none does)
AnalysisLoop(node, st, i, sigs, fail) ==
    IF i > Len(st.tickers) THEN Present(Update("signals", sigs))
    ELSE LET tk == st.tickers[i]
             data == DictGet(st.market_data, tk)
         IN IF NoDataBranch(node, data)
            THEN AnalysisLoop(node, st, i + 1, Append(sigs, DefaultSignal(node, tk)), fail)
            ELSE IF fail = 1 THEN Raised("ValueError")
            ELSE AnalysisLoop(node, st, i + 1,
                     Append(sigs, [LlmSignal EXCEPT !.agent_name = AgentName(node),
                                                    !.ticker = tk]),
                     IF fail = 0 THEN 0 ELSE fail - 1)

\* [s for s in signals if s.ticker == ticker], by its length
TickerSignals(sigs, tk) == Cardinality({j \in 1..Len(sigs) : sigs[j].ticker = tk})

RECURSIVE RiskLoop(_, _, _, _)
RiskLoop(st, i, out, fail) ==
    IF i > Len(st.tickers) THEN Present(Update("risk_assessments", out))
    ELSE IF fail = 1 THEN Raised("ValueError")
    ELSE LET tk == st.tickers[i]
         IN RiskLoop(st, i + 1,
                Append(out, [ticker |-> tk,
                             ticker_signals |-> TickerSignals(st.signals, tk)]),
                IF fail = 0 THEN 0 ELSE fail - 1)
risk_manager_agent(st, fail) == RiskLoop(st, 1, <<>>, fail)

RECURSIVE DecisionLoop(_, _, _, _)
DecisionLoop(st, i, out, fail) ==
    IF i > Len(st.tickers) THEN Present(Update("decisions", out))
    ELSE IF fail = 1 THEN Raised("ValueError")
    ELSE LET tk == st.tickers[i]
         IN DecisionLoop(st, i + 1,
                Append(out, [ticker |-> tk,
                             ticker_signals |-> TickerSignals(st.signals, tk),
                             ticker_risk |-> \E j \in 1..Len(st.risk_assessments) :
                                                st.risk_assessments[j].ticker = tk]),
                IF fail = 0 THEN 0 ELSE fail - 1)
portfolio_manager_agent(st, fail) == DecisionLoop(st, 1, <<>>, fail)

\* the node functions of graph.py
NodeFunction(node, st, md, fail) ==
    CASE node = "fetch_data" -> fetch_market_data(st, md)
      [] node \in AnalysisNodes -> AnalysisLoop(node, st, 1, <<>>, fail)
      [] node = "risk_manager" -> risk_manager_agent(st, fail)
      [] node = "portfolio_manager" -> portfolio_manager_agent(st, fail)

\* a bug that declares the list channels without operator.add: the last
\* update replaces the list
Reduce_overwrite(channel, old, new) == new

\* AgentState: signals, risk_assessments and decisions are Annotated with
\* operator.add, every other key takes the new value
Reduce(channel, old, new) ==
    IF channel \in {"signals", "risk_assessments", "decisions"} THEN old \o new
    ELSE new

RECURSIVE ApplyWrites(_, _, _)
\* the updates of the nodes order[k..] merged into st
ApplyWrites(st, order, k) ==
    IF k > Len(order) THEN st
    ELSE LET w == writes[order[k]]
         IN ApplyWrites([st EXCEPT ![w.channel] = Reduce(w.channel, st[w.channel], w.value)],
                        order, k + 1)
\* the orders in which the updates of one superstep can be merged
Orders(S) == {o \in [1..Cardinality(S) -> S] : \A a, b \in 1..Cardinality(S) : o[a] = o[b] => a = b}

InitPipeline ==
    /\ prices = <<>> /\ last = NoCall
    /\ AgentIdle
    /\ ServiceIdle

Event(ev, node, st) == [ev |-> ev, node |-> node, state |-> st]

\* graph.invoke / graph.stream: the entry point is the first task
GraphInvoke ==
    /\ run = "idle"
    /\ \E ticker_list \in TickerLists :
          state' = InitialState(ticker_list)
    /\ tasks' = [n \in Nodes |-> IF <<START, n>> \in Edges THEN "scheduled" ELSE "idle"]
    /\ writes' = [n \in Nodes |-> NoUpdate]
    /\ trace' = <<>>
    /\ run' = "running"
    /\ UNCHANGED <<prices, last, agent, llm, stream, sessions>>

\* a scheduled node starts on the state of the superstep
NodeStart ==
    /\ run = "running"
    /\ \E n \in Nodes :
          /\ tasks[n] = "scheduled"
          /\ tasks' = [tasks EXCEPT ![n] = "running"]
          /\ trace' = Append(trace, Event("start", n, state))
    /\ UNCHANGED <<prices, last, agent, llm, stream, sessions, state, writes, run>>

\* a running node returns its update or raises
NodeFinish ==
    /\ run \in {"running", "raised"}
    /\ \E n \in Nodes :
          /\ tasks[n] = "running"
          /\ \E md \in [{state.tickers[j] : j \in 1..Len(state.tickers)} -> DataKinds],
                fail \in 0..MaxTickers :
                   LET out == NodeFunction(n, state, md, fail)
                   IN IF out.status = "raised"
                      THEN /\ tasks' = [tasks EXCEPT ![n] = "raised"]
                           /\ trace' = Append(trace, Event("raise", n, state))
                           /\ UNCHANGED writes
                      ELSE /\ tasks' = [tasks EXCEPT ![n] = "done"]
                           /\ trace' = Append(trace, Event("end", n, state))
                           /\ writes' = [writes EXCEPT ![n] = out.val]
    /\ UNCHANGED <<prices, last, agent, llm, stream, sessions, state, run>>

\* the end of a superstep in which no node raised: the updates are merged and
\* the nodes that the finished nodes lead to are scheduled; the run is over
\* when there is none
Superstep ==
    /\ run = "running"
    /\ \A n \in Nodes : tasks[n] \in {"idle", "done"}
    /\ LET done == {n \in Nodes : tasks[n] = "done"}
       IN /\ done # {}
          /\ \E order \in Orders(done) : state' = ApplyWrites(state, order, 1)
          /\ tasks' = [n \in Nodes |-> IF n \in Triggered(done) THEN "scheduled" ELSE "idle"]
          /\ run' = IF Triggered(done) = {} THEN "END" ELSE "running"
    /\ writes' = [n \in Nodes |-> NoUpdate]
    /\ UNCHANGED <<prices, last, agent, llm, stream, sessions, trace>>

\* a node raised: the run ends with the exception, no update of the
\* superstep is merged and no further node is started
GraphRaise ==
    /\ run = "running"
    /\ \E n \in Nodes : tasks[n] = "raised"
    /\ run' = "raised"
    /\ tasks' = [n \in Nodes |-> IF tasks[n] = "scheduled" THEN "idle" ELSE tasks[n]]
    /\ UNCHANGED <<prices, last, agent, llm, stream, sessions, state, writes, trace>>

NextPipeline ==
    \/ GraphInvoke
    \/ NodeStart
    \/ NodeFinish
    \/ Superstep
    \/ GraphRaise
SpecPipeline == InitPipeline /\ [][NextPipeline]_vars
\* every thread of the run is scheduled and every call returns
SpecPipelineFair == SpecPipeline /\ WF_vars(NextPipeline)

\* ------------------------------------------------------------------------
\* call_llm (llm/models.py)
\* ------------------------------------------------------------------------
MAX_RETRIES == 3
ResponseModels == {"TradingSignal", "RiskAssessment", "TradeDecision"}
\* what one llm.invoke can do: raise, answer text that holds no JSON, answer
\* JSON that the response model rejects, answer JSON that it accepts
InvokeOutcomes == {"raises", "no_json", "invalid", "valid"}
RaisedWith(e, message) == [status |-> "raised", exc |-> e, val |-> message]

InitLlm ==
    /\ prices = <<>> /\ last = NoCall
    /\ AgentIdle
    /\ ServiceIdle

\* the call up to the loop: get_llm raises ValueError without an API key
CallLlm ==
    /\ llm_pc = "idle"
    /\ \E rm \in ResponseModels \cup {"None"}, api_key \in BOOLEAN :
          /\ response_model' = rm
          /\ IF ~api_key
             THEN /\ llm_pc' = "done"
                  /\ returned' = RaisedWith("ValueError", <<"MINIMAX_API_KEY not found">>)
                  /\ attempt' = 0
             ELSE /\ llm_pc' = IF rm = "None" THEN "plain" ELSE "loop"
                  /\ returned' = None
                  /\ attempt' = IF rm = "None" THEN 0 ELSE 1
    /\ UNCHANGED <<prices, last, agent, graph, stream, sessions, raw, invoked>>

\* without a response model: the content of the one response, or the
\* exception of llm.invoke
LlmPlain ==
    /\ llm_pc = "plain"
    /\ \E o \in InvokeOutcomes :
          /\ invoked' = Append(invoked, o)
          /\ returned' = IF o = "raises" THEN Raised("ConnectionError") ELSE Present(o)
    /\ llm_pc' = "done"
    /\ UNCHANGED <<prices, last, agent, graph, stream, sessions, response_model, attempt, raw>>

\* one pass of the loop body: the try block and its except clause
LlmAttempt ==
    /\ llm_pc = "loop" /\ attempt \in 1..MAX_RETRIES
    /\ \E o \in InvokeOutcomes :
          /\ invoked' = Append(invoked, o)
          \* raw is assigned after llm.invoke has returned
          /\ raw' = IF o = "raises" THEN raw ELSE o
          /\ IF o = "valid"
             THEN /\ returned' = Present([model |-> response_model])
                  /\ llm_pc' = "done"
                  /\ UNCHANGED attempt
             ELSE IF attempt < MAX_RETRIES
             THEN /\ attempt' = attempt + 1
                  /\ UNCHANGED <<llm_pc, returned>>
             ELSE \* logger.error reads raw[:500] before the raise
                  /\ returned' = IF raw' = Unbound
                                 THEN Raised("UnboundLocalError")
                                 ELSE RaisedWith("ValueError", <<response_model, MAX_RETRIES>>)
                  /\ llm_pc' = "done"
                  /\ UNCHANGED attempt
    /\ UNCHANGED <<prices, last, agent, graph, stream, sessions, response_model>>

NextLlm ==
    \/ CallLlm
    \/ LlmPlain
    \/ LlmAttempt
SpecLlm == InitLlm /\ [][NextLlm]_vars

\* ------------------------------------------------------------------------
\* /stream (web/routes.py): the pipeline runs in a worker thread and hands
\* its chunks to the event generator through an asyncio queue
\* ------------------------------------------------------------------------
MaxChunks == 3
\* a chunk of graph.stream: the nodes of the dict, in the order of its items
Chunks == {<<"fetch_data">>, <<"technicals">>, <<"fundamentals", "sentiment">>}
\* the items that travel through the queue
ChunkItem(chunk) == [kind |-> "chunk", nodes |-> chunk, error |-> ""]
Sentinel == [kind |-> "None", nodes |-> <<>>, error |-> ""]
ExceptionItem(message) == [kind |-> "Exception", nodes |-> <<>>, error |-> message]
PipelineErrors == {"Failed to parse TradingSignal from LLM after 3 attempts"}

StartEvent == [event |-> "start", data |-> "tickers"]
NodeCompleteEvent(node) == [event |-> "node_complete", data |-> node]
ErrorEvent(message) == [event |-> "error", data |-> message]
CompleteEvent == [event |-> "complete", data |-> "done"]

\* a bug that runs the callback handed over last first
ReadyIndex_lifo(ready) == Len(ready)

\* the event loop runs the callbacks of call_soon_threadsafe in the order in
\* which they were handed over
ReadyIndex(ready) == 1

Without(seq, k) == [j \in 1..(Len(seq) - 1) |-> IF j < k THEN seq[j] ELSE seq[j + 1]]

InitStream ==
    /\ prices = <<>> /\ last = NoCall
    /\ AgentIdle
    /\ ServiceIdle

\* the generator up to its first yield: the worker thread is started and the
\* start event is sent
StreamStart ==
    /\ gen_pc = "idle"
    /\ worker_pc' = "running"
    /\ events' = Append(events, StartEvent)
    /\ gen_pc' = "loop"
    /\ UNCHANGED <<prices, last, agent, graph, llm, sessions, produced, scheduled, queue>>

\* run_pipeline: graph.stream yields a chunk and the thread hands
\* queue.put(chunk) to the loop
WorkerChunk ==
    /\ worker_pc = "running" /\ Len(produced) < MaxChunks
    /\ \E chunk \in Chunks :
          /\ produced' = Append(produced, chunk)
          /\ scheduled' = Append(scheduled, ChunkItem(chunk))
    /\ UNCHANGED <<prices, last, agent, graph, llm, sessions, worker_pc, queue, events, gen_pc>>

\* run_pipeline: graph.stream is exhausted, the thread hands over queue.put(None)
WorkerEnd ==
    /\ worker_pc = "running"
    /\ scheduled' = Append(scheduled, Sentinel)
    /\ worker_pc' = "finished"
    /\ UNCHANGED <<prices, last, agent, graph, llm, sessions, produced, queue, events, gen_pc>>

\* run_pipeline: graph.stream raises, the thread hands over queue.put(exc)
WorkerRaise ==
    /\ worker_pc = "running"
    /\ \E message \in PipelineErrors :
          scheduled' = Append(scheduled, ExceptionItem(message))
    /\ worker_pc' = "raised"
    /\ UNCHANGED <<prices, last, agent, graph, llm, sessions, produced, queue, events, gen_pc>>

\* the event loop runs one queue.put coroutine; the queue is unbounded, so
\* the put does not wait
LoopPut ==
    /\ scheduled # <<>>
    /\ queue' = Append(queue, scheduled[ReadyIndex(scheduled)])
    /\ scheduled' = Without(scheduled, ReadyIndex(scheduled))
    /\ UNCHANGED <<prices, last, agent, graph, llm, sessions, worker_pc, produced, events, gen_pc>>

\* one pass of the generator's while loop, from queue.get to the next
\* queue.get or to the end of the generator
GeneratorNext ==
    /\ gen_pc = "loop" /\ queue # <<>>
    /\ queue' = Tail(queue)
    /\ LET chunk == Head(queue)
       IN IF chunk.kind = "None"
          THEN /\ events' = Append(events, CompleteEvent)
               /\ gen_pc' = "done"
          ELSE IF chunk.kind = "Exception"
          THEN \* break leaves the while loop; the yield after the loop follows
               /\ events' = events \o <<ErrorEvent(chunk.error), CompleteEvent>>
               /\ gen_pc' = "done"
          ELSE /\ events' = events \o [j \in 1..Len(chunk.nodes) |->
                                          NodeCompleteEvent(chunk.nodes[j])]
               /\ gen_pc' = "loop"
    /\ UNCHANGED <<prices, last, agent, graph, llm, sessions, worker_pc, produced, scheduled>>

NextStream ==
    \/ StreamStart
    \/ WorkerChunk
    \/ WorkerEnd
    \/ WorkerRaise
    \/ LoopPut
    \/ GeneratorNext
SpecStream == InitStream /\ [][NextStream]_vars
\* the worker thread and the event loop keep running
SpecStreamFair == SpecStream /\ WF_vars(NextStream)

\* ------------------------------------------------------------------------
\* /analyze and the session store of the research documents (web/routes.py)
\* ------------------------------------------------------------------------
MAX_DOCS_PER_TICKER == 3
MAX_FILE_SIZE_BYTES == 20 * 1024 * 1024
\* the default of max_age_seconds
MaxAgeSeconds == 600
MaxUploads == 4
MaxSessions == 2
\* the instants at which time.time() is read, in seconds
ClockValues == {0, 1, 600, 601, 602}

\* str.strip().upper() on the tokens of the forms
StripUpper(token) ==
    CASE token = "aaa" -> "AAA"
      [] token = " aaa" -> "AAA"
      [] token = "bbb" -> "BBB"
      [] token = "zzz" -> "ZZZ"
      [] OTHER -> ""
\* str.lower() on the file extensions
Lower(ext) == IF ext = ".PDF" THEN ".pdf" ELSE ext
\* tickers_raw, split at the commas: nothing, a lone comma, one or two tickers
TickerInputs == {<<"">>, <<"", "">>, <<"aaa">>, <<"bbb">>, <<"bbb", " aaa">>}
\* tickers_raw.strip() is empty
Blank(tickers_raw) == \A k \in 1..Len(tickers_raw) : StripUpper(tickers_raw[k]) = "" /\ Len(tickers_raw) = 1

RECURSIVE TickerList(_, _)
\* [t.strip().upper() for t in tickers_raw.split(",") if t.strip()], from token k on
TickerList(tickers_raw, k) ==
    IF k > Len(tickers_raw) THEN <<>>
    ELSE IF StripUpper(tickers_raw[k]) = "" THEN TickerList(tickers_raw, k + 1)
    ELSE <<StripUpper(tickers_raw[k])>> \o TickerList(tickers_raw, k + 1)

\* an entry of doc_files with the entry of doc_tickers at the same index
\* (<<>> when doc_tickers is shorter): the file name as stem and extension
\* and the number of bytes that upload_file.read() returns
Upload(stem, ext, size, tk) == [stem |-> stem, ext |-> ext, size |-> size, ticker |-> tk]
UploadKinds ==
    {Upload("a", ".pdf", 1, <<"aaa">>),
     Upload("b", ".PDF", MAX_FILE_SIZE_BYTES, <<"aaa">>),
     Upload("c", ".pdf", MAX_FILE_SIZE_BYTES + 1, <<"aaa">>),
     Upload("d", ".txt", 1, <<"aaa">>),
     Upload("e", ".pdf", 1, <<"zzz">>),
     Upload("f", ".pdf", 1, <<>>),
     Upload("", "", 0, <<"aaa">>)}

\* dict.get(key, [])
DocsOf(research_docs, tk) == IF tk \in DOMAIN research_docs THEN research_docs[tk] ELSE <<>>
\* the document stored for an upload: its file name and, for the extracted
\* text, the size of the bytes it was extracted from
Document(up) == [stem |-> up.stem, ext |-> up.ext, size |-> up.size]

\* a bug that drops the per-ticker limit
ProcessUpload_nolimit(research_docs, ticker_list, up) ==
    LET tk == IF up.ticker = <<>> THEN "" ELSE StripUpper(up.ticker[1])
    IN IF up.stem = "" /\ up.ext = "" THEN research_docs
       ELSE IF tk = "" \/ ~(\E k \in 1..Len(ticker_list) : ticker_list[k] = tk) THEN research_docs
       ELSE IF Lower(up.ext) # ".pdf" THEN research_docs
       ELSE IF up.size > MAX_FILE_SIZE_BYTES THEN research_docs
       ELSE [t \in DOMAIN research_docs \cup {tk} |->
                IF t = tk THEN Append(DocsOf(research_docs, tk), Document(up))
                ELSE research_docs[t]]

\* one pass of the loop over doc_files
ProcessUpload(research_docs, ticker_list, up) ==
    LET tk == IF up.ticker = <<>> THEN "" ELSE StripUpper(up.ticker[1])
    IN IF up.stem = "" /\ up.ext = "" THEN research_docs
       ELSE IF tk = "" \/ ~(\E k \in 1..Len(ticker_list) : ticker_list[k] = tk) THEN research_docs
       ELSE IF Lower(up.ext) # ".pdf" THEN research_docs
       ELSE IF Len(DocsOf(research_docs, tk)) >= MAX_DOCS_PER_TICKER THEN research_docs
       ELSE IF up.size > MAX_FILE_SIZE_BYTES THEN research_docs
       ELSE [t \in DOMAIN research_docs \cup {tk} |->
                IF t = tk THEN Append(DocsOf(research_docs, tk), Document(up))
                ELSE research_docs[t]]

\* a bug that also expires the sessions that are exactly max_age_seconds old
Expired_inclusive(store, t, max_age_seconds) ==
    {sid \in DOMAIN store : store[sid].created_at <= t - max_age_seconds}

\* _cleanup_expired_sessions: the list expired
Expired(store, t, max_age_seconds) ==
    {sid \in DOMAIN store : store[sid].created_at < t - max_age_seconds}

\* a dict without some of its keys
Remove(store, sids) == [sid \in DOMAIN store \ sids |-> store[sid]]

\* a bug that reads the documents and leaves the session in the store
Pop_keep(store, sid) == store

\* _session_store.pop(sid): the store afterwards
Pop(store, sid) == Remove(store, {sid})

\* str(uuid.uuid4()): an id that was not handed out before
Sid(n) == <<"sid-1", "sid-2", "sid-3", "sid-4">>[n]
StreamSids == {"", "unknown"} \cup {Sid(n) : n \in 1..MaxSessions}

InitUpload ==
    /\ prices = <<>> /\ last = NoCall
    /\ AgentIdle
    /\ GraphIdle /\ LlmIdle /\ StreamIdle /\ SessionsIdle
    /\ form_files = MaxUploads
InitSessions ==
    /\ prices = <<>> /\ last = NoCall
    /\ AgentIdle
    /\ GraphIdle /\ LlmIdle /\ StreamIdle /\ SessionsIdle
    /\ form_files = 1

\* start_analysis up to its first await: _cleanup_expired_sessions()
AnalyzeStart ==
    /\ req.pc = "idle"
    /\ LET expired == Expired(session_store, now, MaxAgeSeconds)
       IN /\ session_store' = Remove(session_store, expired)
          /\ req' = [NoRequest EXCEPT !.pc = "form", !.expired = expired]
    /\ UNCHANGED <<prices, last, agent, graph, llm, stream, now, next_sid, response,
                   deliveries, submitted, form_files>>

\* the form is read and validated; once MaxSessions session ids are handed
\* out, the only requests that still arrive are those without a ticker
AnalyzeForm ==
    /\ req.pc = "form"
    /\ \E tickers_raw \in TickerInputs, cash_ok \in BOOLEAN :
          /\ next_sid > MaxSessions => Blank(tickers_raw)
          /\ IF Blank(tickers_raw) \/ ~cash_ok
             THEN /\ response' = [NoResponse EXCEPT !.route = "analyze", !.status = "form_error"]
                  /\ req' = NoRequest
             ELSE /\ req' = [req EXCEPT !.pc = "files", !.ticker_list = TickerList(tickers_raw, 1)]
                  /\ UNCHANGED response
    /\ UNCHANGED <<prices, last, agent, graph, llm, stream, session_store, now, next_sid,
                   deliveries, submitted, form_files>>

\* the next entry of doc_files
AnalyzeFile ==
    /\ req.pc = "files" /\ req.i < form_files
    /\ \E up \in UploadKinds :
          req' = [req EXCEPT !.i = req.i + 1,
                             !.research_docs = ProcessUpload(req.research_docs, req.ticker_list, up)]
    /\ UNCHANGED <<prices, last, agent, graph, llm, stream, session_store, now, next_sid,
                   response, deliveries, submitted, form_files>>

\* after the last file: the session is stored and the redirect sent
AnalyzeFinish ==
    /\ req.pc = "files"
    /\ IF req.research_docs # EmptyDict
       THEN /\ session_store' = [sid \in DOMAIN session_store \cup {Sid(next_sid)} |->
                                   IF sid = Sid(next_sid)
                                   THEN [docs |-> req.research_docs, created_at |-> now]
                                   ELSE session_store[sid]]
            /\ submitted' = [sid \in DOMAIN submitted \cup {Sid(next_sid)} |->
                               IF sid = Sid(next_sid) THEN req.ticker_list ELSE submitted[sid]]
            /\ deliveries' = [sid \in DOMAIN deliveries \cup {Sid(next_sid)} |->
                                IF sid = Sid(next_sid) THEN 0 ELSE deliveries[sid]]
            /\ next_sid' = next_sid + 1
            /\ response' = [NoResponse EXCEPT !.route = "analyze", !.status = "redirect",
                                              !.sid = Sid(next_sid)]
       ELSE /\ response' = [NoResponse EXCEPT !.route = "analyze", !.status = "redirect"]
            /\ UNCHANGED <<session_store, submitted, deliveries, next_sid>>
    /\ req' = NoRequest
    /\ UNCHANGED <<prices, last, agent, graph, llm, stream, now, form_files>>

\* stream_analysis up to the event generator: the documents of the session
\* are taken out of the store
StreamRequest ==
    /\ \E sid \in StreamSids :
          IF sid # "" /\ sid \in DOMAIN session_store
          THEN /\ session_store' = Pop(session_store, sid)
               /\ response' = [route |-> "stream", status |-> "ok", sid |-> sid,
                               docs |-> session_store[sid].docs]
               /\ deliveries' = [deliveries EXCEPT ![sid] = deliveries[sid] + 1]
          ELSE /\ response' = [route |-> "stream", status |-> "ok", sid |-> sid,
                               docs |-> EmptyDict]
               /\ UNCHANGED <<session_store, deliveries>>
    /\ UNCHANGED <<prices, last, agent, graph, llm, stream, now, next_sid, req, submitted,
                   form_files>>

\* time passes
Tick ==
    /\ \E t \in ClockValues : t > now /\ now' = t
    /\ UNCHANGED <<prices, last, agent, graph, llm, stream, session_store, next_sid, req,
                   response, deliveries, submitted, form_files>>

NextUpload ==
    \/ AnalyzeStart
    \/ AnalyzeForm
    \/ AnalyzeFile
    \/ AnalyzeFinish
SpecUpload == InitUpload /\ [][NextUpload]_vars
NextSessions ==
    \/ AnalyzeStart
    \/ AnalyzeForm
    \/ AnalyzeFile
    \/ AnalyzeFinish
    \/ StreamRequest
    \/ Tick
SpecSessions == InitSessions /\ [][NextSessions]_vars

\* ------------------------------------------------------------------------
\* Properties
\* ------------------------------------------------------------------------
StrictlyIncreasing(seq) == \A i \in 1..(Len(seq) - 1) : seq[i] < seq[i + 1]
IsCall(f) == last.fn = f
IsPresent == last.out.status = "present"
IsAbsent == last.out.status = "absent"

\* the minimum history of each indicator (spec section 8, property 3)
MinLength(f, arg) ==
    CASE f = "_compute_rsi" -> 15
      [] f = "_compute_macd" -> 35
      [] f = "_compute_bollinger_bands" -> 20
      [] f = "_compute_atr" -> 15
      [] f = "_compute_stochastic" -> 17
      [] f = "_compute_obv" -> 20
      [] f = "_find_support_resistance" -> 20
      [] f = "_assess_trend" -> 50
      [] f = "_compute_ema_value" -> arg
      [] f = "_compute_sma" -> arg
ThresholdFunctions ==
    {"_compute_rsi", "_compute_macd", "_compute_bollinger_bands", "_compute_atr",
     "_compute_stochastic", "_compute_obv", "_find_support_resistance", "_assess_trend",
     "_compute_ema_value", "_compute_sma"}

\* C1: each of RSI, MACD, Bollinger, ATR, Stochastic, OBV, support/resistance,
\* trend, ema_value and sma is absent on a series one bar shorter than its
\* minimum length and present on a series of exactly its minimum length.
C1_AbsenceThresholds ==
    last.fn \in ThresholdFunctions =>
        /\ Len(prices) = MinLength(last.fn, last.arg) - 1 => IsAbsent
        /\ Len(prices) = MinLength(last.fn, last.arg) => IsPresent
C1_Witness ==
    /\ IsCall("_assess_trend") /\ Len(prices) = 50 /\ IsPresent
    /\ last.out.val.up_days_20 = 1

\* C2: volume character analysis is absent below 20 bars, present and fully
\* populated on exactly 20 bars, and raises for no series length.
C2_VolumeNeverRaises ==
    IsCall("_analyze_volume") =>
        /\ last.out.status # "raised"
        /\ Len(prices) < 20 => IsAbsent
        /\ Len(prices) = 20 => IsPresent

\* C3: no indicator call on a valid series ends in a division by zero; a zero
\* denominator gives the fallback instead: %K 50.0 on a flat window, pct_b 0.5
\* when upper equals lower, RSI 100.0 when the average loss is 0,
\* relative_volume 1.0 when the average volume is 0.
C3_NoDivisionByZero ==
    /\ last.out.exc # "ZeroDivisionError"
    /\ (IsCall("_compute_stochastic") /\ IsPresent
          /\ MaxInt(Highs(LastN(prices, 14))) = MinInt(Lows(LastN(prices, 14))))
       => last.out.val.pct_k = 500
    /\ (IsCall("_compute_bollinger_bands") /\ IsPresent
          /\ ~BandsDiffer(LastN(Closes(prices), 20)))
       => last.out.val.pct_b = 50
    /\ (IsCall("_compute_rsi") /\ Len(prices) >= 15 /\ RIsZero(AvgLoss(Closes(prices), 14)))
       => (IsPresent /\ last.out.val = R(100))
    /\ (IsCall("_analyze_volume") /\ IsPresent /\ SumInt(LastN(Volumes(prices), 20)) = 0)
       => last.out.val.relative_volume = 100
C3_Witness ==
    /\ IsCall("_compute_stochastic") /\ IsPresent
    /\ MaxInt(Highs(LastN(prices, 14))) = MinInt(Lows(LastN(prices, 14)))
    /\ last.out.val.pct_k = 500

\* C4: a sub-report that an indicator returns is absent or fully populated:
\* no field of a present report is None, in particular period_high,
\* period_low, pct_from_high and pct_from_low of support/resistance.
C4_FullyPopulated ==
    IsPresent =>
        /\ IsCall("_find_support_resistance") =>
              /\ last.out.val.period_high # <<>>
              /\ last.out.val.period_low # <<>>
              /\ last.out.val.pct_from_high # <<>>
              /\ last.out.val.pct_from_low # <<>>
        /\ IsCall("_compute_fibonacci") =>
              /\ last.out.val.nearest_level # <<>>
              /\ Len(last.out.val.levels) = 7
C4_Witness ==
    /\ IsCall("_find_support_resistance") /\ IsPresent
    /\ last.out.val.pct_from_high = <<0>>
    /\ last.out.val.period_low # <<>>

\* C5: _ema returns a sequence as long as its input, whose first element is
\* the first input value and whose later elements follow
\* ema[i] = (series[i] - ema[i-1]) * 2/(span+1) + ema[i-1]; a constant series
\* maps to itself.
C5_EmaRecurrence ==
    IsCall("_ema") =>
        LET series == ToQ(Closes(prices))
            out == last.out.val
            multiplier == Norm(2, last.arg + 1)
        IN /\ Len(out) = Len(series)
           /\ Len(series) >= 1 => out[1] = series[1]
           /\ \A i \in 2..Len(series) :
                 out[i] = RAdd(RMul(RSub(series[i], out[i - 1]), multiplier), out[i - 1])
           /\ AllEqual(series) => out = series
C5_Witness ==
    /\ IsCall("_ema") /\ last.arg = 3
    /\ Closes(prices) = <<5>>
    /\ last.out.val = <<R(5)>>

\* C6: an RSI value lies in [0, 100]; it is exactly 100 whenever the smoothed
\* average loss is 0, which every strictly increasing and every all-equal
\* close series of at least period + 1 bars gives.
C6_RsiBounds ==
    IsCall("_compute_rsi") =>
        /\ IsPresent => /\ RLe(R(0), last.out.val) /\ RLe(last.out.val, R(100))
                        /\ RIsZero(AvgLoss(Closes(prices), 14)) => last.out.val = R(100)
        /\ (Len(prices) >= 15 /\ (StrictlyIncreasing(Closes(prices)) \/ AllEqual(Closes(prices))))
           => (IsPresent /\ last.out.val = R(100))
C6_Witness ==
    /\ IsCall("_compute_rsi") /\ IsPresent
    /\ Len(prices) >= 16 /\ StrictlyIncreasing(Closes(prices))
    /\ last.out.val = R(100)

\* C7: with d_prev and d_curr the values of macd_line - signal_line at the
\* last two indices, the crossover label is bullish iff d_prev <= 0 < d_curr,
\* bearish iff d_prev >= 0 > d_curr, and "no recent crossover" otherwise.
MacdDiff(series, i) ==
    LET macd_line == MacdLine(ToQ(Closes(series)))
    IN RSub(PyAt(macd_line, i), PyAt(ema(macd_line, 9), i))
C7_MacdCrossover ==
    (IsCall("_compute_macd") /\ Len(prices) >= 35) =>
        LET d_prev == MacdDiff(prices, -2)
            d_curr == MacdDiff(prices, -1)
            label == last.out.val.crossover
            bull == RLe(d_prev, R(0)) /\ RLt(R(0), d_curr)
            bear == RLe(R(0), d_prev) /\ RLt(d_curr, R(0))
        IN /\ IsPresent
           /\ (label = "BULLISH crossover (MACD crossing above signal)") <=> bull
           /\ (label = "BEARISH crossover (MACD crossing below signal)") <=> bear
           /\ (label = "no recent crossover") <=> (~bull /\ ~bear)
C7_Witness ==
    /\ IsCall("_compute_macd") /\ IsPresent
    /\ last.out.val.crossover = "BULLISH crossover (MACD crossing above signal)"
    /\ RIsZero(MacdDiff(prices, -2))

\* C8: for Bollinger Bands over the last 20 closes, lower + pct_b * (upper -
\* lower) gives back the current close up to the output rounding when upper
\* differs from lower, and 20 equal closes c give upper = lower = middle = c,
\* bandwidth 0 and pct_b exactly 0.5.
C8_BollingerIdentity ==
    (IsCall("_compute_bollinger_bands") /\ IsPresent) =>
        LET b == last.out.val
            c == PyAt(Closes(prices), -1)
        IN /\ AllEqual(LastN(Closes(prices), 20)) =>
                 (b.upper = c /\ b.lower = c /\ b.middle = c /\ b.bandwidth = 0 /\ b.pct_b = 50)
           \* in hundredths of a cent; one cent for the rounding of each band
           \* and half a hundredth of the band width for the rounding of pct_b
           /\ b.upper # b.lower =>
                 Abs(100 * b.lower + b.pct_b * (b.upper - b.lower) - 100 * c)
                    <= 200 + (b.upper - b.lower)

\* the cent roundings of the cluster means of `levels` that lie on the side
\* `dir` of the close (dir 1: above, -1: below), the close itself included
RoundedClusters(levels, current, dir) ==
    {Round(m, t) : m \in {levels[j] : j \in {i \in 1..Len(levels) :
                                              IF dir > 0 THEN RLe(R(current), levels[i])
                                              ELSE RLe(levels[i], R(current))}},
                   t \in TieBreak}
\* every cluster strictly beyond the close is reported, or the list is full
\* with levels nearer to the close than it
NearestReported(reported, levels, current, dir) ==
    \A j \in 1..Len(levels) :
        (IF dir > 0 THEN RLt(R(current), levels[j]) ELSE RLt(levels[j], R(current))) =>
            \/ \E i \in 1..Len(reported), t \in TieBreak : reported[i] = Round(levels[j], t)
            \/ /\ Len(reported) = 3
               /\ IF dir > 0 THEN RLt(R(reported[3]), levels[j])
                             ELSE RLt(levels[j], R(reported[3]))

\* C9 (as stated): in every present support/resistance result the resistance
\* list has at most 3 levels, all strictly greater than the current close, in
\* strictly ascending order; the support list has at most 3 levels, all
\* strictly less than the current close, in strictly descending order.
C9_StrictlyBeyondClose ==
    (IsCall("_find_support_resistance") /\ IsPresent) =>
        LET res == last.out.val.resistance
            sup == last.out.val.support
            current == PyAt(Closes(prices), -1)
        IN /\ Len(res) <= 3 /\ Len(sup) <= 3
           /\ \A i \in 1..Len(res) : res[i] > current
           /\ \A i \in 1..Len(sup) : sup[i] < current
           /\ \A i \in 1..(Len(res) - 1) : res[i] < res[i + 1]
           /\ \A i \in 1..(Len(sup) - 1) : sup[i] > sup[i + 1]

\* C9 (amended): in every present support/resistance result the resistance
\* list has at most 3 levels, all greater than or equal to the current close
\* (a level above the close can round to the close), in strictly ascending
\* order, and it consists of the roundings of the 3 nearest clustered
\* pivot-high levels above the close; the support list has at most 3 levels,
\* all less than or equal to the close, in strictly descending order, and it
\* consists of the roundings of the 3 nearest clustered pivot-low levels below
\* the close.
C9_NearestLevels ==
    (IsCall("_find_support_resistance") /\ Len(prices) >= 20) =>
        LET res == last.out.val.resistance
            sup == last.out.val.support
            current == PyAt(Closes(prices), -1)
            high_clusters == cluster_levels(PivotHighs(prices), ClusterThreshold)
            low_clusters == cluster_levels(PivotLows(prices), ClusterThreshold)
        IN /\ IsPresent
           /\ Len(res) <= 3 /\ Len(sup) <= 3
           /\ \A i \in 1..Len(res) : res[i] >= current
           /\ \A i \in 1..Len(sup) : sup[i] <= current
           /\ \A i \in 1..(Len(res) - 1) : res[i] < res[i + 1]
           /\ \A i \in 1..(Len(sup) - 1) : sup[i] > sup[i + 1]
           /\ \A i \in 1..Len(res) : res[i] \in RoundedClusters(high_clusters, current, 1)
           /\ \A i \in 1..Len(sup) : sup[i] \in RoundedClusters(low_clusters, current, -1)
           /\ NearestReported(res, high_clusters, current, 1)
           /\ NearestReported(sup, low_clusters, current, -1)
C9_Witness ==
    /\ IsCall("_find_support_resistance") /\ IsPresent
    /\ Len(last.out.val.resistance) = 3
    /\ Len(cluster_levels(PivotHighs(prices), ClusterThreshold)) > 3
    /\ last.out.val.resistance[1] > PyAt(Closes(prices), -1)

NetVolume(series, k) ==
    SumInt([i \in 1..k |->
        IF i = 1 THEN 0
        ELSE IF series[i].close > series[i - 1].close THEN series[i].volume
        ELSE IF series[i].close < series[i - 1].close THEN 0 - series[i].volume
        ELSE 0])

\* C11: On-Balance Volume is a running sum that starts at 0 with the first bar
\* contributing nothing; after every prefix it equals the volume of the up
\* days minus the volume of the down days, a tie leaves it unchanged, the
\* reported obv is its last value, and for all-equal closes it stays 0.
C11_ObvRunningSum ==
    (IsCall("_compute_obv") /\ IsPresent) =>
        LET obv_series == ObvSeries(prices)
        IN /\ Len(obv_series) = Len(prices)
           /\ obv_series[1] = 0
           /\ \A k \in 1..Len(prices) : obv_series[k] = NetVolume(prices, k)
           /\ \A k \in 2..Len(prices) :
                 prices[k].close = prices[k - 1].close => obv_series[k] = obv_series[k - 1]
           /\ last.out.val.obv = obv_series[Len(prices)]
           /\ AllEqual(Closes(prices)) =>
                 /\ \A k \in 1..Len(prices) : obv_series[k] = 0
                 /\ last.out.val.obv = 0
C11_Witness ==
    /\ IsCall("_compute_obv") /\ IsPresent
    /\ \E k \in 2..Len(prices) : prices[k].close > prices[k - 1].close
    /\ \E k \in 2..Len(prices) : prices[k].close < prices[k - 1].close
    /\ \E k \in 2..Len(prices) : prices[k].close = prices[k - 1].close
    /\ prices[1].volume > 0
    /\ last.out.val.obv > 0

\* the trailing 20 periods (0-based negative indices) whose close is above
\* (dir = 1) or below (dir = -1) the previous close
TrailingDays(closes, dir) ==
    {i \in (-20)..(-1) : IF dir > 0 THEN PyAt(closes, i) > PyAt(closes, i - 1)
                                     ELSE PyAt(closes, i) < PyAt(closes, i - 1)}

\* C14: in a present trend assessment up_days_20 is the number of the trailing
\* 20 periods whose close is above the previous close and down_days_20 the
\* number whose close is below it; an unchanged close counts in neither, so
\* for all-equal closes both counts are 0.
C14_UpDownDays ==
    (IsCall("_assess_trend") /\ IsPresent) =>
        /\ last.out.val.up_days_20 = Cardinality(TrailingDays(Closes(prices), 1))
        /\ last.out.val.down_days_20 = Cardinality(TrailingDays(Closes(prices), -1))
        /\ AllEqual(Closes(prices)) =>
              last.out.val.up_days_20 = 0 /\ last.out.val.down_days_20 = 0

WithinThreshold(a, b) ==
    RLt(RDiv(R(Abs(a - b)), R(IF a > b THEN a ELSE b)), ClusterThreshold)
\* the pivot lists that _find_support_resistance clusters
PivotLists == {PivotHighs(prices), PivotLows(prices)}
Concat(groups) == [k \in 1..SumInt([j \in 1..Len(groups) |-> Len(groups[j])]) |->
    LET j == CHOOSE j \in 1..Len(groups) :
                 /\ SumInt([i \in 1..(j - 1) |-> Len(groups[i])]) < k
                 /\ k <= SumInt([i \in 1..j |-> Len(groups[i])])
    IN groups[j][k - SumInt([i \in 1..(j - 1) |-> Len(groups[i])])]]

ExtremeIndices(values, dir, among) ==
    {i \in among :
        \A k \in ((i - 5)..(i + 5)) \cap (1..Len(values)) :
            IF dir > 0 THEN values[k] <= values[i] ELSE values[k] >= values[i]}
\* the values at the indices `idx`, by ascending index
ValuesAt(values, idx) ==
    [j \in 1..Cardinality(idx) |->
        values[CHOOSE i \in idx : Cardinality({k \in idx : k < i}) = j - 1]]

\* C17 as stated: every index of the series, the first 5 and the last 5 bars
\* included, contributes a pivot high iff its high equals the maximum high
\* over [i-5, i+5], and a pivot low likewise.
C17_PivotEveryIndex ==
    (IsCall("_find_support_resistance") /\ IsPresent) =>
        /\ PivotHighs(prices)
             = ValuesAt(Highs(prices), ExtremeIndices(Highs(prices), 1, 1..Len(prices)))
        /\ PivotLows(prices)
             = ValuesAt(Lows(prices), ExtremeIndices(Lows(prices), -1, 1..Len(prices)))

\* C17: bar i (counted from 0) with 5 <= i < len - 5 contributes a pivot high
\* iff high[i] equals the maximum high over [i-5, i+5], and a pivot low iff
\* low[i] equals the minimum low over the same range; tied extremes inside one
\* window each count; the first 5 and the last 5 bars never contribute.
C17_PivotInterior ==
    (IsCall("_find_support_resistance") /\ IsPresent) =>
        LET interior == 6..(Len(prices) - 5)
        IN /\ PivotHighs(prices)
                = ValuesAt(Highs(prices), ExtremeIndices(Highs(prices), 1, interior))
           /\ PivotLows(prices)
                = ValuesAt(Lows(prices), ExtremeIndices(Lows(prices), -1, interior))
C17_Witness ==
    /\ IsCall("_find_support_resistance") /\ IsPresent
    /\ LET highs == Highs(prices)
           interior == ExtremeIndices(highs, 1, 6..(Len(prices) - 5))
       IN /\ \E i, k \in interior : i < k /\ k <= i + 5 /\ highs[i] = highs[k]
          /\ \E i \in interior : highs[i] > highs[i - 1]
          /\ ExtremeIndices(highs, 1, 1..5) # {}
          /\ (6..(Len(prices) - 5)) \ interior # {}

\* bounds, in units of 10^-5, of the bandwidth 4 * sqrt(Q) / S of the window
\* closes[j .. j + 19] (2 standard deviations on either side of the mean)
WindowBandwidth(closes, j) ==
    LET w == SubSeq(closes, j, j + 19)
        root == SqrtDigits(16 * WindowQ(w), 3)
    IN IF WindowQ(w) = 0 THEN <<0, 0>>
       ELSE <<(root * 100) \div SumInt(w), ((root + 1) * 100) \div SumInt(w) + 1>>

ObvChange20(series) ==
    NetVolume(series, Len(series)) - NetVolume(series, Len(series) - 19)
PriceChange20(series) == series[Len(series)].close - series[Len(series) - 19].close

\* C19: in a present OBV result, with both slopes taken as (last - first) / 20
\* over the trailing 20 observations, divergence is bullish iff OBV slope > 0
\* and price slope < 0, bearish iff OBV slope < 0 and price slope > 0,
\* confirmed uptrend iff both > 0, confirmed downtrend iff both < 0 and "no
\* clear divergence" iff either slope is 0; trend is rising, falling or flat
\* by the sign of the same OBV slope, so it never contradicts the divergence.
C19_ObvDivergence ==
    (IsCall("_compute_obv") /\ IsPresent) =>
        LET o == ObvChange20(prices)
            p == PriceChange20(prices)
            d == last.out.val.divergence
            t == last.out.val.trend
        IN /\ d = "BULLISH divergence (OBV rising while price falling - accumulation)"
                <=> (o > 0 /\ p < 0)
           /\ d = "BEARISH divergence (OBV falling while price rising - distribution)"
                <=> (o < 0 /\ p > 0)
           /\ d = "Confirmed uptrend (both price and OBV rising)" <=> (o > 0 /\ p > 0)
           /\ d = "Confirmed downtrend (both price and OBV falling)" <=> (o < 0 /\ p < 0)
           /\ d = "No clear divergence" <=> (o = 0 \/ p = 0)
           /\ t = "rising" <=> o > 0
           /\ t = "falling" <=> o < 0
           /\ t = "flat" <=> o = 0
           /\ d \in {"BULLISH divergence (OBV rising while price falling - accumulation)",
                      "Confirmed uptrend (both price and OBV rising)"} => t = "rising"
           /\ d \in {"BEARISH divergence (OBV falling while price rising - distribution)",
                      "Confirmed downtrend (both price and OBV falling)"} => t = "falling"
C19_Witness ==
    /\ IsCall("_compute_obv") /\ IsPresent
    /\ last.out.val.divergence
          = "BULLISH divergence (OBV rising while price falling - accumulation)"
    /\ last.out.val.trend = "rising"
    /\ Len(prices) > 20

\* the trailing 20 bars (1-based) of a series of at least 21 bars whose close
\* is above (dir = 1), below (dir = -1) or equal to (dir = 0) the previous close
Days20(series, dir) ==
    {i \in (Len(series) - 19)..Len(series) :
        CASE dir > 0 -> series[i].close > series[i - 1].close
          [] dir < 0 -> series[i].close < series[i - 1].close
          [] OTHER -> series[i].close = series[i - 1].close}
VolumeOn(series, days) ==
    SumInt([i \in 1..Len(series) |-> IF i \in days THEN series[i].volume ELSE 0])
\* mean a > 1.3 * mean b for the day sets a and b, an empty set having mean 0
Heavier(series, a, b) ==
    LET na == IF a = {} THEN 1 ELSE Cardinality(a)
        nb == IF b = {} THEN 1 ELSE Cardinality(b)
    IN 10 * VolumeOn(series, a) * nb > 13 * VolumeOn(series, b) * na

\* C20: in a present volume-character result the trailing 20 days are
\* partitioned into up-days (close > previous close) and down-days (close <
\* previous close), ties belonging to neither; the character is accumulation
\* iff mean up-day volume > 1.3 * mean down-day volume, distribution iff mean
\* down-day volume > 1.3 * mean up-day volume and balanced otherwise, an empty
\* partition counting as mean 0; the two non-balanced outcomes never both apply.
C20_VolumeCharacter ==
    (IsCall("_analyze_volume") /\ IsPresent) =>
        LET up == Days20(prices, 1)
            down == Days20(prices, -1)
            ch == last.out.val.character
        IN /\ ch = "Accumulation (heavier volume on up days)" <=> Heavier(prices, up, down)
           /\ ch = "Distribution (heavier volume on down days)" <=> Heavier(prices, down, up)
           /\ ch = "Balanced (similar volume on up and down days)"
                <=> (~Heavier(prices, up, down) /\ ~Heavier(prices, down, up))
           /\ ~(Heavier(prices, up, down) /\ Heavier(prices, down, up))
C20_Witness ==
    /\ IsCall("_analyze_volume") /\ IsPresent
    /\ last.out.val.character = "Balanced (similar volume on up and down days)"
    /\ Days20(prices, 1) # {} /\ Days20(prices, -1) # {} /\ Days20(prices, 0) # {}
    /\ VolumeOn(prices, Days20(prices, -1)) > VolumeOn(prices, Days20(prices, 1))

EveryIndicatorAbsent(series) ==
    \A k \in 1..Len(IndicatorOrder) :
        Indicator(IndicatorOrder[k][1], IndicatorOrder[k][2], series, fpu).status = "absent"
TickerIndex(t) == CHOOSE k \in 1..Len(Tickers) : Tickers[k] = t

\* C13: if every indicator is absent for a ticker (an empty price series, or a
\* non-empty one shorter than every minimum length, such as 1 to 8 bars),
\* technicals_agent builds no prompt and makes no language-model call for it
\* and emits the neutral signal with confidence 0.1 instead.
C13_AbsentReportNoPrompt ==
    /\ \A p \in 1..Len(llm_calls) :
          ~EveryIndicatorAbsent(market_data[TickerIndex(llm_calls[p].ticker)])
    /\ \A k \in 1..Len(signals) :
          EveryIndicatorAbsent(market_data[TickerIndex(signals[k].ticker)]) =>
              signals[k] = NeutralSignal(signals[k].ticker)

\* the labels of a Fibonacci result whose level is as near to the close as
\* any level is, in cents
FibClosest(lv, current) ==
    {j \in 1..7 : \A k \in 1..7 :
        Abs(current - lv[j].level) <= Abs(current - lv[k].level)}
FibReported(lv, label) == CHOOSE j \in 1..7 : lv[j].label = label
FibAbsentIff ==
    IsAbsent <=> (Len(prices) < 20 \/ MaxInt(Highs(prices)) = MinInt(Lows(prices)))

\* C21 as stated: the Fibonacci result is absent iff the series has fewer
\* than 20 bars or its maximum high equals its minimum low; when present,
\* nearest_level is the label of a level at minimal absolute distance from
\* the current close, and among all levels at that distance it is the one
\* with the smallest retracement fraction.
C21_FibonacciTieFirst ==
    IsCall("_compute_fibonacci") =>
        /\ FibAbsentIff
        /\ IsPresent =>
              LET lv == last.out.val.levels
                  current == PyAt(Closes(prices), -1)
                  near == FibClosest(lv, current)
              IN /\ Len(last.out.val.nearest_level) = 1
                 /\ FibReported(lv, last.out.val.nearest_level[1]) \in near
                 /\ \A j \in near : FibReported(lv, last.out.val.nearest_level[1]) <= j

\* C21 amended: absent iff fewer than 20 bars or maximum high = minimum low;
\* when present, nearest_level is the label of a level at minimal absolute
\* distance from the current close, and among the labels that share that
\* level value it is the one with the smallest retracement fraction (a level
\* above and a level below the close at the same distance in cents may
\* either be reported).
C21_FibonacciNearest ==
    IsCall("_compute_fibonacci") =>
        /\ FibAbsentIff
        /\ IsPresent =>
              LET lv == last.out.val.levels
                  current == PyAt(Closes(prices), -1)
                  near == FibClosest(lv, current)
              IN /\ Len(last.out.val.nearest_level) = 1
                 /\ FibReported(lv, last.out.val.nearest_level[1]) \in near
                 /\ \A j \in near :
                       lv[j].level = FibLevelOf(lv, last.out.val.nearest_level[1])
                           => FibReported(lv, last.out.val.nearest_level[1]) <= j
C21_Witness ==
    /\ IsCall("_compute_fibonacci") /\ IsPresent
    /\ LET lv == last.out.val.levels
           near == FibClosest(lv, PyAt(Closes(prices), -1))
       IN /\ \E j, k \in near : j # k /\ lv[j].level = lv[k].level
          /\ FibReported(lv, last.out.val.nearest_level[1]) # 1

\* 100 * (close - lowest low) / (highest high - lowest low) over the 14 bars
\* ending at bar e, and 50 on a flat window
ExactK(series, e) ==
    LET window == SubSeq(series, e - 13, e)
        hh == MaxInt(Highs(window))
        ll == MinInt(Lows(window))
    IN IF hh = ll THEN R(50) ELSE Norm(100 * (series[e].close - ll), hh - ll)
\* q, in tenths, rounded to a whole number of tenths either way on a tie
Tenths(q) == {Round(RMul(q, R(10)), tie) : tie \in TieBreak}
ValidBars(series) ==
    \A i \in 1..Len(series) :
        series[i].low <= series[i].close /\ series[i].close <= series[i].high

\* C22: in a present Stochastic result on valid bars (low <= close <= high),
\* pct_k is 50.0 when the highest high of the last 14 bars equals their
\* lowest low and otherwise 100 * (close - lowest low) / (highest high -
\* lowest low), rounded to one decimal; pct_d is the mean of the 3 most
\* recent %K values, rounded to one decimal; both lie in [0, 100].
C22_StochasticBounds ==
    (IsCall("_compute_stochastic") /\ IsPresent /\ ValidBars(prices)) =>
        LET n == Len(prices)
            k3 == [j \in 1..3 |-> ExactK(prices, n - 3 + j)]
        IN /\ last.out.val.pct_k \in Tenths(ExactK(prices, n))
           /\ last.out.val.pct_d \in Tenths(Norm(SumQ(k3)[1], 3 * SumQ(k3)[2]))
           /\ 0 <= last.out.val.pct_k /\ last.out.val.pct_k <= 1000
           /\ 0 <= last.out.val.pct_d /\ last.out.val.pct_d <= 1000
C22_Witness ==
    /\ IsCall("_compute_stochastic") /\ IsPresent /\ ValidBars(prices)
    /\ Len(prices) > 17
    /\ MaxInt(Highs(LastN(prices, 14))) # MinInt(Lows(LastN(prices, 14)))
    /\ 0 < last.out.val.pct_k /\ last.out.val.pct_k < 1000
    /\ last.out.val.pct_d # last.out.val.pct_k

\* the positions of the events ev of a node in the trace of the run
Positions(ev, node) == {j \in 1..Len(trace) : trace[j].ev = ev /\ trace[j].node = node}
\* every start of node a comes after an end of node b
StartsAfterEnd(a, b) ==
    \A j \in Positions("start", a) : \E i \in Positions("end", b) : i < j
SomeNodeRaised == \E j \in 1..Len(trace) : trace[j].ev = "raise"
PipelineOrder ==
    /\ \A a \in AnalysisNodes : StartsAfterEnd(a, "fetch_data")
    /\ \A a \in AnalysisNodes : StartsAfterEnd("risk_manager", a)
    /\ StartsAfterEnd("portfolio_manager", "risk_manager")
    /\ Cardinality(Positions("start", "risk_manager")) <= 1
    /\ Cardinality(Positions("start", "portfolio_manager")) <= 1
    /\ run = "END" =>
          /\ \A n \in Nodes : /\ Cardinality(Positions("start", n)) = 1
                               /\ Cardinality(Positions("end", n)) = 1
          /\ trace[Len(trace)].ev = "end" /\ trace[Len(trace)].node = "portfolio_manager"

TickersBy(sigs, name) ==
    LET J == {j \in 1..Len(sigs) : sigs[j].agent_name = name}
    IN [k \in 1..Cardinality(J) |->
           sigs[CHOOSE j \in J : Cardinality({i \in J : i < j}) = k - 1].ticker]
TickersOf(list) == [k \in 1..Len(list) |-> list[k].ticker]

\* C24: the state that risk_manager starts on holds 3 * len(tickers) signals:
\* for each of the three analysis agents one signal per entry of
\* state["tickers"], carrying the ticker of that entry, in whatever order the
\* three nodes finished and were merged; the final state of a run that
\* reached END holds one risk assessment and one decision per entry of
\* state["tickers"], and still those signals.
C24_SignalsMerged ==
    /\ \A j \in Positions("start", "risk_manager") :
          LET st == trace[j].state
          IN /\ Len(st.signals) = 3 * Len(st.tickers)
             /\ \A a \in AnalysisNodes : TickersBy(st.signals, AgentName(a)) = st.tickers
    /\ run = "END" =>
          /\ Len(state.signals) = 3 * Len(state.tickers)
          /\ \A a \in AnalysisNodes : TickersBy(state.signals, AgentName(a)) = state.tickers
          /\ TickersOf(state.risk_assessments) = state.tickers
          /\ TickersOf(state.decisions) = state.tickers
C24_Witness ==
    /\ run = "END"
    /\ Len(state.tickers) = MaxTickers
    /\ Len(state.signals) = 3 * MaxTickers
    /\ \E i \in Positions("end", "sentiment"), k \in Positions("end", "fundamentals") : i < k
    /\ \E j, k \in 1..Len(state.signals) :
          /\ j < k
          /\ state.signals[j].agent_name = "Technicals Agent"
          /\ state.signals[k].agent_name = "Fundamentals Agent"
          /\ state.signals[j].signal = "bullish" /\ state.signals[k].signal = "neutral"

\* C25: call_llm with a response model invokes the language model at most
\* MAX_RETRIES (3) times; it returns the validated model of the first attempt
\* whose response parses and validates, without a further attempt; when all 3
\* attempts fail - the invocation raising, no JSON, or JSON that the model
\* rejects - it raises ValueError naming the response model.
C25_CallLlmRetries ==
    (response_model \in ResponseModels /\ llm_pc \in {"loop", "done"}) =>
        /\ Len(invoked) <= MAX_RETRIES
        /\ \A j \in 1..(Len(invoked) - 1) : invoked[j] # "valid"
        /\ (llm_pc = "done" /\ returned.status = "present") =>
              /\ invoked[Len(invoked)] = "valid"
              /\ returned.val.model = response_model
        /\ (llm_pc = "done" /\ Len(invoked) = MAX_RETRIES
              /\ \A j \in 1..MAX_RETRIES : invoked[j] # "valid") =>
              /\ returned.status = "raised"
              /\ returned.exc = "ValueError"
              /\ returned.val = <<response_model, MAX_RETRIES>>

\* the events named ev among the events sent
EventsNamed(ev) == {j \in 1..Len(events) : events[j].event = ev}
\* the nodes of the chunks produced, chunk after chunk
ProducedNodes == Concat(produced)
NodeCompleteData ==
    LET J == EventsNamed("node_complete")
    IN [k \in 1..Cardinality(J) |->
           events[CHOOSE j \in J : Cardinality({i \in J : i < j}) = k - 1].data]

\* C26: a /stream response that ran to its end sent exactly one start event,
\* as its first event, exactly one complete event, as its last event, and in
\* between one node_complete event per (chunk, node) in the order in which the
\* worker thread produced the chunks; while it runs, the node_complete events
\* sent are a prefix of that order, and the sentinel is taken from the queue
\* only after every chunk.
C26_StreamOrder ==
    /\ gen_pc # "idle" =>
          /\ Len(NodeCompleteData) <= Len(ProducedNodes)
          /\ NodeCompleteData = SubSeq(ProducedNodes, 1, Len(NodeCompleteData))
    /\ gen_pc = "done" =>
          /\ EventsNamed("start") = {1}
          /\ EventsNamed("complete") = {Len(events)}
          /\ NodeCompleteData = ProducedNodes
          /\ \A j \in EventsNamed("node_complete") : 1 < j /\ j < Len(events)
C26_Witness ==
    /\ gen_pc = "done" /\ worker_pc = "finished"
    /\ Len(produced) = MaxChunks
    /\ produced[1] # produced[2]
    /\ Len(ProducedNodes) > MaxChunks

\* C27: when the pipeline raised in the worker thread, the finished stream
\* holds exactly one error event, carrying the exception message, no
\* node_complete event after it and no complete event with status done.
C27_ErrorExclusive ==
    (worker_pc = "raised" /\ gen_pc = "done") =>
        /\ Cardinality(EventsNamed("error")) = 1
        /\ \A j \in EventsNamed("error") :
              /\ events[j].data \in PipelineErrors
              /\ \A k \in EventsNamed("node_complete") : k < j
        /\ EventsNamed("complete") = {}

\* the documents of a dict of research documents, of all tickers
AllDocs(docs) == UNION {{docs[t][k] : k \in 1..Len(docs[t])} : t \in DOMAIN docs}
SessionShape(pdf_exts) ==
    \A sid \in DOMAIN session_store :
        LET docs == session_store[sid].docs
        IN /\ docs # EmptyDict
           /\ \A t \in DOMAIN docs :
                 /\ \E k \in 1..Len(submitted[sid]) : submitted[sid][k] = t
                 /\ 1 <= Len(docs[t]) /\ Len(docs[t]) <= MAX_DOCS_PER_TICKER
           /\ \A d \in AllDocs(docs) :
                 /\ d.ext \in pdf_exts
                 /\ d.size <= MAX_FILE_SIZE_BYTES
\* the last /analyze request yielded no document
NoDocument == response.route = "analyze" /\ response.sid = ""

C28_DocumentsConsumedOnce ==
    /\ \A sid \in DOMAIN deliveries :
          /\ deliveries[sid] <= 1
          /\ deliveries[sid] = 1 => sid \notin DOMAIN session_store
    /\ response.route = "stream" =>
          /\ response.status = "ok"
          /\ response.sid \notin DOMAIN session_store
          /\ response.docs # EmptyDict =>
                (response.sid \in DOMAIN deliveries /\ deliveries[response.sid] = 1)
          /\ response.sid \in {"", "unknown"} => response.docs = EmptyDict
C28_Witness ==
    /\ response.route = "stream" /\ response.docs = EmptyDict
    /\ response.sid \in DOMAIN deliveries /\ deliveries[response.sid] = 1
    /\ session_store # EmptyDict

\* the sessions created more than MaxAgeSeconds before the instant t
OlderThanMaxAge(store, t) ==
    {sid \in DOMAIN store : t - store[sid].created_at > MaxAgeSeconds}

\* C30: the cleanup at the start of an /analyze request removes exactly the
\* sessions created more than 600 seconds before the current time and leaves
\* every other session and its documents as they were, so that right after it
\* the store holds no session older than 600 seconds.
C30_CleanupExact ==
    [][AnalyzeStart =>
          /\ DOMAIN session_store' = DOMAIN session_store \ OlderThanMaxAge(session_store, now)
          /\ \A sid \in DOMAIN session_store' : session_store'[sid] = session_store[sid]
          /\ OlderThanMaxAge(session_store', now') = {}]_vars
C30_Witness ==
    /\ req.pc = "form" /\ req.expired # {}
    /\ \E sid \in DOMAIN session_store : now - session_store[sid].created_at = MaxAgeSeconds

TypeOK == last.out.status \in {"absent", "present", "raised"}
====
